---- MODULE Spec2Model ----
(***************************************************************************)
(* A model of the mwoffliner scrape pipeline: the article renderer and its *)
(* category pagination, the Downloader's adaptive concurrency and backoff, *)
(* saveArticles, downloadFiles and the phase sequence of a dump.           *)
(*                                                                         *)
(* Each subsystem has its own specification (SpecRender, SpecDownloader,   *)
(* ...) over the shared variables; the variables a specification does not  *)
(* use stay at their idle values.                                          *)
(***************************************************************************)
EXTENDS Integers, Sequences, FiniteSets, TLC

\* JavaScript's null / undefined
Null == "null"
Undefined == "undefined"

\* ---------------------------------------------------------------- bounds
\* the largest number of subcategories of the rendered article
MaxSubCats == 401
\* the largest speed a Downloader is constructed with
MaxSpeed == 2
\* the number of calls of the Downloader that may be in progress together
NumCalls == 1
\* the most HTTP 429 answers one getJSON call receives
Max429PerCall == 3
\* the largest width (px) in a media URL
MaxSize == 2
\* the most files in filesToDownload when downloadFiles is called
MaxFiles == 3
\* the most articles the enumeration of a dump finds
MaxArticles == 2
\* the most writes or downloads of one kind that one step of a dump starts
MaxStarted == 2
\* the allpages batches of a namespace, and the most responses one call of
\* getArticleDetailsNS receives
NumBatches == 2
MaxResponses == 3
\* the most dumps of one run (env.dumps)
MaxDumps == 2
\* the longest file name or id written as text, in characters
MaxLen == 3
\* the most applications of processArticleHtml to one document
MaxPasses == 2
\* the most child nodes of a link
MaxChildren == 2
\* the most entries of urlPartCache before the round trip
MaxCache == 2
\* the most child elements of the parent of the headings
MaxHeadings == 3
\* the most <source> children of the video element
MaxSources == 2
\* the callers that wait in claimRequest together
MaxCallers == 11
\* the most items the wiki holds for one prop of the title
MaxItems == 2
\* the articles of a run of the module dependencies
MaxModuleArticles == 3
\* the article-details queries sent after checkCapabilities
MaxQueries == 2
\* the calls of the Downloader in progress together when slots are counted
MaxSlotCalls == 2
\* the articles of a run whose links point to one another
MaxLinkedArticles == 3
\* the runs made on one cache directory, and the URLs fetched through it
MaxRuns == 3
MaxCachedUrls == 2

\* ---------------------------------------------------------------- state
VARIABLES
    \* stores (src/stores): id -> ArticleDetail
    articleDetailXId,
    \* renderArticle: its inputs, its position and its result
    rArticleId, rIsMainPage, rRestApiAvailable, rArticleDetail, rPc, rI, rResult,
    \* Downloader: its fields and the calls of getJSON / downloadContent /
    \* getArticle in progress
    speed, maxActiveRequests, activeRequests, calls,
    \* stores (src/stores): archive path -> file task; redirect id -> target
    filesToDownloadXPath, redirectsXId,
    \* scrapeStatus: the counters articles.{success, fail}, files.{success, fail}
    scrapeStatus,
    \* the archive (zimCreator): the urls added to namespace 'A'
    archiveA,
    \* saveArticles: the main page, the REST capability, the keys iterateItems
    \* has not dispatched yet, every worker's position, and whether the
    \* function has returned
    mainPage, restApiAvailable, pendingKeys, workers, articlesPhase,
    \* history: the sizes inserted per archive path, the articles whose fetch
    \* failed
    inserted, fetchFailed,
    \* stores (src/stores): archive path -> file task of the retry pass
    filesToRetryXPath,
    \* downloadFiles: per pass the keys iterateItems has not dispatched yet and
    \* every worker's position; whether the function has returned; the paths
    \* added to namespace 'I' of the archive
    filePending, fileWorkers, filesPhase, archiveI,
    \* history: per path the downloads started, with pass and outcome
    fileLog,
    \* the dump: the task of the async.series that is running, the layout, what
    \* the enumeration and the redirect caching have done, the articles still
    \* to save and saved
    task, mobileLayout, articleIdsEnumerated, redirectsCached, articlesLeft, articlesSaved,
    \* the dump: the static CSS writes and the module downloads under way, the
    \* tasks queued or running in downloadFileQueue and optimizationQueue
    staticWrites, moduleDownloads, downloadFileQueue, optimizationQueue,
    \* getArticleDetailsNS: its position, its argument, its locals, the requests it sent and the responses it got (history), its result
    nsPc, nsGapcontinue, queryContinuation, gCont, nsRequests, nsResponses, nsResult,
    \* downloadImage: the If-None-Match header of arrayBufferRequestOptions, the blob cache, the upstream's etags, the call's position, url and locals, the upstream's answer, what the handler received and whether the call uploaded
    ifNoneMatch, blobCache, upstreamEtag, imPc, imUrl, imageResp, imAnswer, imOutcome, imUploaded,
    \* execute: the run as a whole (part_000 476-540, 2120-2123)
    runPc, runTask, dumpsLeft, runOpts, reported, exitCode, successLine,
    \* checkCapabilities: the probes and what they decide (part_002 183-232)
    capPc, capOpts, mwCapabilities, baseUrl, baseUrlForMainPage, localServices, probeFailed, capFetched,
    \* treatMedias on one image: the passes applied, the img element, what each pass enqueued (saveArticles.ts 200-230, 309-378)
    mePc, meArticleId, meImg, mePasses,
    \* rewriteUrls on one link: the children of the link's parent, the place of the link among them, its href as parsed (part_000 1051-1187)
    lkPc, lkNodes, lkAt, lkLink, lkMedia,
    \* serializeUrl / deserializeUrl: the cache of URL parts and one round trip (part_002 160-181)
    urlPartCache, upPc, upX, upUrl, upBack,
    \* encodeArticleIdForZimHtmlUrl: an id, its encoding, the decoding of that and its encoding (part_001 317-319)
    enPc, enArticleId, enEncoded, enDecoded, enAgain,
    \* applyOtherTreatments, empty paragraphs: the parent, its child elements before and after the pass (saveArticles.ts 593-621)
    hdPc, hdParent, hdBefore, hdNodes, keepEmptyParagraphs,
    \* treatMedias on one video element: the dump's mode, the element before and after, the media dependencies (saveArticles.ts 246-307)
    vdPc, vdArticleId, vdDump, vdBefore, vdVideo, vdDeps,
    \* rewriteUrl, geo links: the rel and href of the link, the coordinates its params were written from, the href afterwards (part_000 1096-1152)
    geoPc, geoRel, geoParams, geoHref, geoNew,
    \* getArticleDetailsIds: what the wiki has yet to deliver for the title, the continuation, the merged response, what was delivered, the requests sent (part_002 314-350)
    dtPc, dtRemaining, dtContinuation, dtFinal, dtDelivered, dtRequests,
    \* getArticle and the article loop on one response: its shape, the rendering path taken, the rendered html, the counters, the archive (articleRenderers.ts 17-101, saveArticles.ts 85-132)
    dkPc, dkJson, dkIsMainPage, dkRestApiAvailable, dkPath, dkRets, dkStatus, dkArchive,
    \* module dependencies: the implementation run, the articles under way and what was injected into each, the lists and the jsConfigVars of saveArticles, the order in which the dependencies arrived, the jsConfigVars entry (part_000 734-793, 1337-1345; saveArticles.ts 111-146)
    mdImpl, mdSpeed, mdArt, jsDependenciesList, styleDependenciesList, jsConfigVars, mdOrder, mdConfigEntry, mdPhase,
    \* the article-details queries after checkCapabilities: the probe's response, mw.getCategories, the queries sent, whether one awaits its response, whether a response to one carried the coordinates warning (part_002 222-231, 314-331, 516-531)
    cqProbe, cqGetCategories, cqRequests, cqPending, cqWarned,
    \* links to articles that are dropped: the ids in articleDetailXId, every article's position and the titles its kept links point to, the articles added to the archive (saveArticles.ts 79-132, 781-783; part_000 1051-1080, 1533-1569)
    mrSpeed, mrStore, mrArt, mrArchive, mrPhase,
    \* the cache directory over several runs: per URL the times of the body file and of the headers file, the ref marker, the clock, the run and its option, the URLs fetched and those served from the cache in the run (part_000 509-522, 1860-1896)
    scFiles, scRef, scClock, scRun, scPc, scSkip, scFetched, scHits

renderVars == <<articleDetailXId, rArticleId, rIsMainPage, rRestApiAvailable, rArticleDetail, rPc, rI, rResult>>

downloaderVars == <<speed, maxActiveRequests, activeRequests, calls>>

articleVars == <<filesToDownloadXPath, redirectsXId, scrapeStatus, archiveA, mainPage, restApiAvailable,
                 pendingKeys, workers, articlesPhase, inserted, fetchFailed>>

fileVars == <<filesToRetryXPath, filePending, fileWorkers, filesPhase, archiveI, fileLog>>

dumpVars == <<task, mobileLayout, articleIdsEnumerated, redirectsCached, articlesLeft, articlesSaved,
              staticWrites, moduleDownloads, downloadFileQueue, optimizationQueue>>

nsVars == <<nsPc, nsGapcontinue, queryContinuation, gCont, nsRequests, nsResponses, nsResult>>

imageVars == <<ifNoneMatch, blobCache, upstreamEtag, imPc, imUrl, imageResp, imAnswer, imOutcome, imUploaded>>

runVars == <<runPc, runTask, dumpsLeft, runOpts, reported, exitCode, successLine>>

capVars == <<capPc, capOpts, mwCapabilities, baseUrl, baseUrlForMainPage, localServices, probeFailed, capFetched>>

mediaVars == <<mePc, meArticleId, meImg, mePasses>>

linkVars == <<lkPc, lkNodes, lkAt, lkLink, lkMedia>>

urlPartVars == <<urlPartCache, upPc, upX, upUrl, upBack>>

encodeVars == <<enPc, enArticleId, enEncoded, enDecoded, enAgain>>

headingVars == <<hdPc, hdParent, hdBefore, hdNodes, keepEmptyParagraphs>>

videoVars == <<vdPc, vdArticleId, vdDump, vdBefore, vdVideo, vdDeps>>

geoVars == <<geoPc, geoRel, geoParams, geoHref, geoNew>>

detailsVars == <<dtPc, dtRemaining, dtContinuation, dtFinal, dtDelivered, dtRequests>>

desktopVars == <<dkPc, dkJson, dkIsMainPage, dkRestApiAvailable, dkPath, dkRets, dkStatus, dkArchive>>

modulesVars == <<mdImpl, mdSpeed, mdArt, jsDependenciesList, styleDependenciesList, jsConfigVars, mdOrder, mdConfigEntry, mdPhase>>

queryVars == <<cqProbe, cqGetCategories, cqRequests, cqPending, cqWarned>>

mirrorVars == <<mrSpeed, mrStore, mrArt, mrArchive, mrPhase>>

scratchVars == <<scFiles, scRef, scClock, scRun, scPc, scSkip, scFetched, scHits>>

vars == <<renderVars, downloaderVars, articleVars, fileVars, dumpVars, nsVars, imageVars, runVars, capVars, mediaVars, linkVars, urlPartVars, encodeVars, headingVars, videoVars, geoVars, detailsVars, desktopVars, modulesVars, queryVars, mirrorVars, scratchVars>>

\* what the actions of one subsystem leave alone
renderLocals == <<rArticleId, rIsMainPage, rRestApiAvailable, rArticleDetail, rPc, rI, rResult>>
notRenderVars == <<downloaderVars, articleVars, fileVars, dumpVars, nsVars, imageVars, runVars, capVars, mediaVars, linkVars, urlPartVars, encodeVars, headingVars, videoVars, geoVars, detailsVars, desktopVars, modulesVars, queryVars, mirrorVars, scratchVars>>
notDownloaderVars == <<renderVars, articleVars, fileVars, dumpVars, nsVars, imageVars, runVars, capVars, mediaVars, linkVars, urlPartVars, encodeVars, headingVars, videoVars, geoVars, detailsVars, desktopVars, modulesVars, queryVars, mirrorVars, scratchVars>>
notArticleVars == <<renderLocals, maxActiveRequests, activeRequests, calls, fileVars, dumpVars, nsVars, imageVars, runVars, capVars, mediaVars, linkVars, urlPartVars, encodeVars, headingVars, videoVars, geoVars, detailsVars, desktopVars, modulesVars, queryVars, mirrorVars, scratchVars>>
notFileVars == <<renderVars, maxActiveRequests, activeRequests, calls, redirectsXId, archiveA, mainPage,
                 restApiAvailable, pendingKeys, workers, articlesPhase, inserted, fetchFailed, dumpVars, nsVars, imageVars, runVars, capVars, mediaVars, linkVars, urlPartVars, encodeVars, headingVars, videoVars, geoVars, detailsVars, desktopVars, modulesVars, queryVars, mirrorVars, scratchVars>>
notDumpVars == <<renderVars, downloaderVars, articleVars, fileVars, nsVars, imageVars, runVars, capVars, mediaVars, linkVars, urlPartVars, encodeVars, headingVars, videoVars, geoVars, detailsVars, desktopVars, modulesVars, queryVars, mirrorVars, scratchVars>>
notNsVars == <<renderVars, downloaderVars, articleVars, fileVars, dumpVars, imageVars, runVars, capVars, mediaVars, linkVars, urlPartVars, encodeVars, headingVars, videoVars, geoVars, detailsVars, desktopVars, modulesVars, queryVars, mirrorVars, scratchVars>>
notImageVars == <<renderVars, downloaderVars, articleVars, fileVars, dumpVars, nsVars, runVars, capVars, mediaVars, linkVars, urlPartVars, encodeVars, headingVars, videoVars, geoVars, detailsVars, desktopVars, modulesVars, queryVars, mirrorVars, scratchVars>>
notRunVars == <<renderVars, downloaderVars, articleVars, fileVars, dumpVars, nsVars, imageVars, capVars, mediaVars, linkVars, urlPartVars, encodeVars, headingVars, videoVars, geoVars, detailsVars, desktopVars, modulesVars, queryVars, mirrorVars, scratchVars>>
notCapVars == <<renderVars, downloaderVars, articleVars, fileVars, dumpVars, nsVars, imageVars, runVars, mediaVars, linkVars, urlPartVars, encodeVars, headingVars, videoVars, geoVars, detailsVars, desktopVars, modulesVars, queryVars, mirrorVars, scratchVars>>
notCapQueryVars == <<renderVars, downloaderVars, articleVars, fileVars, dumpVars, nsVars, imageVars, runVars, mediaVars, linkVars, urlPartVars, encodeVars, headingVars, videoVars, geoVars, detailsVars, desktopVars, modulesVars, mirrorVars, scratchVars>>
notMediaVars == <<renderVars, downloaderVars, articleVars, fileVars, dumpVars, nsVars, imageVars, runVars, capVars, linkVars, urlPartVars, encodeVars, headingVars, videoVars, geoVars, detailsVars, desktopVars, modulesVars, queryVars, mirrorVars, scratchVars>>
notLinkVars == <<renderVars, downloaderVars, articleVars, fileVars, dumpVars, nsVars, imageVars, runVars, capVars, mediaVars, urlPartVars, encodeVars, headingVars, videoVars, geoVars, detailsVars, desktopVars, modulesVars, queryVars, mirrorVars, scratchVars>>
notUrlPartVars == <<renderVars, downloaderVars, articleVars, fileVars, dumpVars, nsVars, imageVars, runVars, capVars, mediaVars, linkVars, encodeVars, headingVars, videoVars, geoVars, detailsVars, desktopVars, modulesVars, queryVars, mirrorVars, scratchVars>>
notEncodeVars == <<renderVars, downloaderVars, articleVars, fileVars, dumpVars, nsVars, imageVars, runVars, capVars, mediaVars, linkVars, urlPartVars, headingVars, videoVars, geoVars, detailsVars, desktopVars, modulesVars, queryVars, mirrorVars, scratchVars>>
notHeadingVars == <<renderVars, downloaderVars, articleVars, fileVars, dumpVars, nsVars, imageVars, runVars, capVars, mediaVars, linkVars, urlPartVars, encodeVars, videoVars, geoVars, detailsVars, desktopVars, modulesVars, queryVars, mirrorVars, scratchVars>>
notVideoVars == <<renderVars, downloaderVars, articleVars, fileVars, dumpVars, nsVars, imageVars, runVars, capVars, mediaVars, linkVars, urlPartVars, encodeVars, headingVars, geoVars, detailsVars, desktopVars, modulesVars, queryVars, mirrorVars, scratchVars>>
notGeoVars == <<renderVars, downloaderVars, articleVars, fileVars, dumpVars, nsVars, imageVars, runVars, capVars, mediaVars, linkVars, urlPartVars, encodeVars, headingVars, videoVars, detailsVars, desktopVars, modulesVars, queryVars, mirrorVars, scratchVars>>
notDetailsVars == <<renderVars, downloaderVars, articleVars, fileVars, dumpVars, nsVars, imageVars, runVars, capVars, mediaVars, linkVars, urlPartVars, encodeVars, headingVars, videoVars, geoVars, desktopVars, modulesVars, queryVars, mirrorVars, scratchVars>>
notDesktopVars == <<renderVars, downloaderVars, articleVars, fileVars, dumpVars, nsVars, imageVars, runVars, capVars, mediaVars, linkVars, urlPartVars, encodeVars, headingVars, videoVars, geoVars, detailsVars, modulesVars, queryVars, mirrorVars, scratchVars>>
notModulesVars == <<renderVars, downloaderVars, articleVars, fileVars, dumpVars, nsVars, imageVars, runVars, capVars, mediaVars, linkVars, urlPartVars, encodeVars, headingVars, videoVars, geoVars, detailsVars, desktopVars, queryVars, mirrorVars, scratchVars>>
notQueryVars == <<renderVars, downloaderVars, articleVars, fileVars, dumpVars, nsVars, imageVars, runVars, capVars, mediaVars, linkVars, urlPartVars, encodeVars, headingVars, videoVars, geoVars, detailsVars, desktopVars, modulesVars, mirrorVars, scratchVars>>
notMirrorVars == <<renderVars, downloaderVars, articleVars, fileVars, dumpVars, nsVars, imageVars, runVars, capVars, mediaVars, linkVars, urlPartVars, encodeVars, headingVars, videoVars, geoVars, detailsVars, desktopVars, modulesVars, queryVars, scratchVars>>
notScratchVars == <<renderVars, downloaderVars, articleVars, fileVars, dumpVars, nsVars, imageVars, runVars, capVars, mediaVars, linkVars, urlPartVars, encodeVars, headingVars, videoVars, geoVars, detailsVars, desktopVars, modulesVars, queryVars, mirrorVars>>

\* ---------------------------------------------------------------- helpers
Max(a, b) == IF a > b THEN a ELSE b
Min(a, b) == IF a < b THEN a ELSE b

\* Math.ceil(n / d) for n >= 0, d > 0
CeilDiv(n, d) == (n + d - 1) \div d

\* Array.prototype.slice(from, to) with 0 <= from <= to: the elements at the
\* 0-based positions from .. to-1 that exist
Slice(s, from, to) == SubSeq(s, from + 1, Min(to, Len(s)))

\* store.set(key, val) and store.delete(key)
StoreSet(store, key, val) == [k \in DOMAIN store \cup {key} |-> IF k = key THEN val ELSE store[k]]
StoreDelete(store, key) == [k \in DOMAIN store \ {key} |-> store[k]]
StoreGet(store, key) == IF key \in DOMAIN store THEN store[key] ELSE Undefined

\* ---------------------------------------------------------------- renderArticle
\* the page size of the category pagination
SubCategoriesPerPage == 200

\* Math.max(Math.ceil(subCategories.length / 200), 1)
numberOfPagesRoundedDown(n) == Max(n \div SubCategoriesPerPage, 1)
numberOfPagesToSplitInto(n) == Max(CeilDiv(n, SubCategoriesPerPage), 1)

\* articleId + (i === 0 ? '' : `__${i}`)
ShardId(articleId, i) == IF i = 0 THEN articleId ELSE articleId \o "__" \o ToString(i)

\* the subCategories, nextArticleId and prevArticleId of shard i of n
ShardSubCategories(subCategories, i) ==
    Slice(subCategories, i * SubCategoriesPerPage, (i + 1) * SubCategoriesPerPage)

NextArticleId(articleId, i, n) ==
    IF n > i + 1 THEN articleId \o "__" \o ToString(i + 1) ELSE Null

PrevArticleIdNoFirst(articleId, i) ==
    IF (i - 1) > 0 THEN articleId \o "__" \o ToString(i - 1) ELSE Null
PrevArticleId(articleId, i) ==
    IF (i - 1) > 0 THEN articleId \o "__" \o ToString(i - 1)
    ELSE IF (i - 1) = 0 THEN articleId
    ELSE Null

\* Object.assign({}, articleDetail, {subCategories, nextArticleId, prevArticleId})
ShardDetail(articleDetail, articleId, i, n) ==
    [articleDetail EXCEPT
        !.subCategories = ShardSubCategories(articleDetail.subCategories, i),
        !.nextArticleId = NextArticleId(articleId, i, n),
        !.prevArticleId = PrevArticleId(articleId, i)]

\* the RenderedArticle of one shard: its id and what the html shows of the
\* detail (renderMCSArticle lists the subCategories and links prev and next)
Rendered(articleId, articleDetail) ==
    [articleId |-> articleId,
     subCategories |-> articleDetail.subCategories,
     prevArticleId |-> articleDetail.prevArticleId,
     nextArticleId |-> articleDetail.nextArticleId]

\* the desktop rendering shows none of the detail's lists
RenderedDesktop(articleId) ==
    [articleId |-> articleId, subCategories |-> <<>>,
     prevArticleId |-> Null, nextArticleId |-> Null]

\* isRendered = isMainPage || !capabilities.restApiAvailable
IsRendered(isMainPage, restApi) == isMainPage \/ ~restApi

\* if (subCategories.length > 200) await articleDetailXId.set(_articleId, _articleDetail)
ShardIsStored(n) == n > SubCategoriesPerPage

\* an ArticleDetail of the enumeration phase with n subcategories
Detail(title, n) ==
    [title |-> title, subCategories |-> [j \in 1..n |-> j],
     nextArticleId |-> Undefined, prevArticleId |-> Undefined]

InitRender ==
    /\ rArticleId = "Category:C"
    /\ \E n \in 0..MaxSubCats : articleDetailXId = ("Category:C" :> Detail("Category:C", n))
    /\ rIsMainPage \in BOOLEAN
    /\ rRestApiAvailable \in BOOLEAN
    /\ rArticleDetail = Undefined
    /\ rPc = "start"
    /\ rI = 0
    /\ rResult = <<>>

IdleRenderLocals ==
    /\ rArticleId = ""
    /\ rIsMainPage = FALSE
    /\ rRestApiAvailable = TRUE
    /\ rArticleDetail = Undefined
    /\ rPc = "idle"
    /\ rI = 0
    /\ rResult = <<>>

IdleRender ==
    /\ articleDetailXId = <<>>
    /\ IdleRenderLocals

\* line 19: const articleDetail = await articleDetailXId.get(articleId)
RenderGetDetail ==
    /\ rPc = "start"
    /\ rArticleDetail' = StoreGet(articleDetailXId, rArticleId)
    /\ rPc' = "dispatch"
    /\ UNCHANGED <<articleDetailXId, rArticleId, rIsMainPage, rRestApiAvailable, rI, rResult>>
    /\ UNCHANGED notRenderVars

\* lines 21-32: the desktop rendering, for the main page and when the REST API
\* is unavailable: one RenderedArticle under the article's own id
RenderDesktop ==
    /\ rPc = "dispatch"
    /\ IsRendered(rIsMainPage, rRestApiAvailable)
    /\ rResult' = <<RenderedDesktop(rArticleId)>>
    /\ rPc' = "done"
    /\ UNCHANGED <<articleDetailXId, rArticleId, rIsMainPage, rRestApiAvailable, rArticleDetail, rI>>
    /\ UNCHANGED notRenderVars

\* lines 34-38: enter the pagination loop
RenderMCSStart ==
    /\ rPc = "dispatch"
    /\ ~IsRendered(rIsMainPage, rRestApiAvailable)
    /\ rPc' = "loop"
    /\ rI' = 0
    /\ rResult' = <<>>
    /\ UNCHANGED <<articleDetailXId, rArticleId, rIsMainPage, rRestApiAvailable, rArticleDetail>>
    /\ UNCHANGED notRenderVars

\* lines 38-72: one iteration of the loop: build the shard's detail from the
\* detail read at line 19, store it when the article is paginated, push the
\* shard's rendering
RenderShard ==
    /\ rPc = "loop"
    /\ LET len == Len(rArticleDetail.subCategories)
           n == numberOfPagesToSplitInto(len)
           _articleId == ShardId(rArticleId, rI)
           _articleDetail == ShardDetail(rArticleDetail, rArticleId, rI, n)
       IN /\ rI < n
          /\ articleDetailXId' = IF ShardIsStored(len)
                                 THEN StoreSet(articleDetailXId, _articleId, _articleDetail)
                                 ELSE articleDetailXId
          /\ rResult' = Append(rResult, Rendered(_articleId, _articleDetail))
          /\ rI' = rI + 1
    /\ UNCHANGED <<rArticleId, rIsMainPage, rRestApiAvailable, rArticleDetail, rPc>>
    /\ UNCHANGED notRenderVars

\* line 74: return result
RenderReturn ==
    /\ rPc = "loop"
    /\ rI >= numberOfPagesToSplitInto(Len(rArticleDetail.subCategories))
    /\ rPc' = "done"
    /\ UNCHANGED <<articleDetailXId, rArticleId, rIsMainPage, rRestApiAvailable, rArticleDetail, rI, rResult>>
    /\ UNCHANGED notRenderVars

\* ---- claims about renderArticle

\* the rendered article's original list of subcategories and their number
rOriginal == rArticleDetail.subCategories
rN == Len(rOriginal)

\* ceil(N / 200), at least 1, written without the model's operators
ExpectedShards(n) == IF n = 0 THEN 1 ELSE ((n - 1) \div 200) + 1

\* the subcategories at the 0-based positions 200*i .. 200*i+199 of the list
ExpectedPage(list, i) ==
    [j \in 1..(IF Len(list) - 200 * i > 200 THEN 200 ELSE Len(list) - 200 * i) |-> list[200 * i + j]]

ShardCount ==
    /\ Len(rResult) = ExpectedShards(rN)
    /\ (rN = 200 => Len(rResult) = 1) /\ (rN = 201 => Len(rResult) = 2)
    /\ (rN = 400 => Len(rResult) = 2) /\ (rN = 401 => Len(rResult) = 3)

\* the count, and every shard's rendering lists its page of the subcategories
ShardsPartition ==
    /\ ShardCount
    /\ \A i \in 0..(Len(rResult) - 1) : rResult[i + 1].subCategories = ExpectedPage(rOriginal, i)

\* the count, and the detail stored under every shard's id holds its page
StoredShardsPartition ==
    /\ ShardCount
    /\ \A i \in 0..(Len(rResult) - 1) :
           /\ rResult[i + 1].articleId \in DOMAIN articleDetailXId
           /\ articleDetailXId[rResult[i + 1].articleId].subCategories = ExpectedPage(rOriginal, i)

\* C9 (as claimed): rendering an article with N subcategories always yields
\* max(1, ceil(N/200)) shards, shard i carrying the subcategories at positions
\* 200*i .. 200*i+199, whatever the rendering path (read in the claim's favour:
\* a shard carries what the detail stored under its id holds).
C9_AsClaimed == rPc = "done" => StoredShardsPartition

\* C9 (amended): on the mobile-sections path (the article is not the main page
\* and the REST API is available) rendering an article with N subcategories
\* yields max(1, ceil(N/200)) shards (200 gives 1, 201 gives 2, 400 gives 2,
\* 401 gives 3) and shard i carries exactly the subcategories at positions
\* 200*i .. 200*i+199 in order; on the desktop path (main page, or REST
\* unavailable) it yields exactly one rendered article whatever N is.
C9_ShardsPartitionOnMCSPath ==
    rPc = "done" =>
        IF rIsMainPage \/ ~rRestApiAvailable
        THEN Len(rResult) = 1 /\ rResult[1].articleId = rArticleId
        ELSE ShardsPartition

\* a paginated rendering of 401 subcategories has returned its three shards
C9_Witness == rPc = "done" /\ ~rIsMainPage /\ rRestApiAvailable /\ rN = 401 /\ Len(rResult) = 3

\* C10: for an article split into k > 1 shards, shard 0 has the original id and
\* shard i > 0 the id '<id>__i'; every shard is stored in articleDetail under
\* its own id; nextArticleId of shard i is the id of shard i+1 (null for the
\* last) and prevArticleId of shard i+1 is the id of shard i (null for shard 0).
C10_ShardChain ==
    (rPc = "done" /\ Len(rResult) > 1) =>
        \A i \in 0..(Len(rResult) - 1) :
            LET shard == rResult[i + 1]
                last == Len(rResult) - 1
            IN /\ shard.articleId = (IF i = 0 THEN rArticleId ELSE rArticleId \o "__" \o ToString(i))
               /\ shard.articleId \in DOMAIN articleDetailXId
               /\ LET stored == articleDetailXId[shard.articleId]
                  IN /\ stored.subCategories = shard.subCategories
                     /\ stored.nextArticleId = (IF i = last THEN Null ELSE rResult[i + 2].articleId)
                     /\ stored.prevArticleId = (IF i = 0 THEN Null ELSE rResult[i].articleId)
                     /\ shard.nextArticleId = stored.nextArticleId
                     /\ shard.prevArticleId = stored.prevArticleId

\* a rendering has returned a chain of three shards
C10_Witness == rPc = "done" /\ Len(rResult) = 3 /\ "Category:C__2" \in DOMAIN articleDetailXId

\* ---------------------------------------------------------------- Downloader
\* this.maxActiveRequests = speed * 10
RequestsPerSpeed == 10
\* backoffOptions.failAfter
failAfter == 7

Calls == 1..NumCalls

\* the upstream's answers to one GET: a status, or no answer within reqTimeout
Answers == {"200", "404", "429", "500", "timeout"}

\* the error axios rejects with: err.code and err.response.status
ErrOf(answer) ==
    [code |-> IF answer = "timeout" THEN "ECONNABORTED" ELSE "ERR_BAD_RESPONSE",
     status |-> IF answer = "timeout" THEN Undefined ELSE answer]
\* the error of a failed blob-cache read: no HTTP response of the upstream
S3Err == [code |-> "S3", status |-> Undefined]
NoErr == [code |-> Null, status |-> Null]

\* validateStatus of axios' default and of arrayBufferRequestOptions
IsSuccess(answer) == answer = "200"

\* retryIf: err.code === 'ECONNABORTED' || err.response?.status !== 404
retryIfAlways(err) == TRUE
retryIf(err) == err.code = "ECONNABORTED" \/ err.status # "404"

\* Math.max(Math.ceil(this.maxActiveRequests * 0.9), 1)
newMaxActiveRequestsRoundedDown(m) == (9 * m) \div 10
newMaxActiveRequests(m) == Max(CeilDiv(9 * m, 10), 1)

\* this.optimisationCacheUrl && this.isImageUrl(url)
UsesBlobCache(call) == call.kind = "downloadContent" /\ call.image

IdleCall ==
    [kind |-> "none", image |-> FALSE, pc |-> "idle", attempts |-> 0, retries |-> 0,
     at404 |-> 0, err |-> NoErr]

InitDownloader ==
    /\ speed \in 1..MaxSpeed
    /\ maxActiveRequests = speed * RequestsPerSpeed
    /\ activeRequests = 0
    /\ calls = [c \in Calls |-> IdleCall]

IdleDownloader ==
    /\ speed = 1
    /\ maxActiveRequests = RequestsPerSpeed
    /\ activeRequests = 0
    /\ calls = <<>>

\* releaseRequest as it would be if it left the counter alone
releaseRequestNever(active) == active

\* releaseRequest: this.activeRequests -= 1
releaseRequest(active) == active - 1

\* the terminal callback of getJSON / downloadContent: releaseRequest, then
\* reject(err) or resolve(val)
Settled(call, err) ==
    [call EXCEPT !.pc = IF err = NoErr THEN "resolved" ELSE "rejected", !.err = err]

\* the function handed to backoff is (re)invoked: getJSONCb and the plain
\* branch of getContentCb issue the GET, downloadImage first reads the blob cache
Invoked(call) ==
    IF UsesBlobCache(call)
    THEN [call EXCEPT !.pc = "s3"]
    ELSE [call EXCEPT !.pc = "inflight", !.attempts = @ + 1]

\* backoff's FunctionCall on handler(err): retry when retryIf(err) holds and
\* fewer than failAfter backoffs were made, otherwise the terminal callback
HandlerErr(call, err) ==
    IF retryIf(err) /\ call.retries < failAfter
    THEN [call EXCEPT !.pc = "backoff"]
    ELSE Settled(call, err)

IsSettled(call) == call.pc \in {"resolved", "rejected"}

\* throw new Error(`Parameter [${_url}] is not a valid url`)
InvalidUrl == [code |-> "not a valid url", status |-> Undefined]

\* downloadContent as it would be if it claimed a slot before testing the URL
downloadContentClaimsFirst(_url) ==
    [IdleCall EXCEPT !.kind = "downloadContent", !.pc = IF _url = "" THEN "claimEmpty" ELSE "claim"]

\* downloadContent up to its first await: an empty URL throws, so the promise
\* is rejected; any other URL waits in claimRequest
downloadContent(_url) ==
    IF _url = ""
    THEN [IdleCall EXCEPT !.kind = "downloadContent", !.pc = "rejected", !.err = InvalidUrl]
    ELSE [IdleCall EXCEPT !.kind = "downloadContent", !.pc = "claim"]

\* a caller calls getJSON(url), getArticle(articleId, dump) or
\* downloadContent(url): the call waits in claimRequest
StartCall(c) ==
    /\ calls[c].pc = "idle"
    /\ \E kind \in {"getJSON", "getArticle", "downloadContent"}, image \in BOOLEAN :
          /\ image => kind = "downloadContent"
          /\ calls' = [calls EXCEPT ![c] =
                          IF kind = "downloadContent"
                          THEN [downloadContent("u") EXCEPT !.image = image]
                          ELSE [IdleCall EXCEPT !.kind = kind, !.pc = "claim"]]
    /\ UNCHANGED <<speed, maxActiveRequests, activeRequests>>
    /\ UNCHANGED notDownloaderVars

\* a caller calls downloadContent('')
DownloadContentEmpty(c) ==
    /\ calls[c].pc = "idle"
    /\ calls' = [calls EXCEPT ![c] = downloadContent("")]
    /\ UNCHANGED <<speed, maxActiveRequests, activeRequests>>
    /\ UNCHANGED notDownloaderVars

\* this.activeRequests < this.maxActiveRequests, as it would be with <=
HasFreeSlotOrEqual(active, maxActive) == active <= maxActive

\* this.activeRequests < this.maxActiveRequests
HasFreeSlot(active, maxActive) == active < maxActive

\* claimRequest gets a slot (it polls every 200 ms until one is free), and
\* backoffCall starts the call
ClaimRequest(c) ==
    /\ calls[c].pc \in {"claim", "claimEmpty"}
    /\ HasFreeSlot(activeRequests, maxActiveRequests)
    /\ activeRequests' = activeRequests + 1
    /\ calls' = [calls EXCEPT ![c] = Invoked(@)]
    /\ UNCHANGED <<speed, maxActiveRequests>>
    /\ UNCHANGED notDownloaderVars

\* getJSONCb: the upstream answers the GET of a getJSON / getArticle call
GetJSONAnswer(c, answer) ==
    /\ calls[c].pc = "inflight"
    /\ calls[c].kind \in {"getJSON", "getArticle"}
    /\ IF IsSuccess(answer)
       THEN \* handler(null, a.data)
            /\ calls' = [calls EXCEPT ![c] = Settled(@, NoErr)]
            /\ activeRequests' = releaseRequest(activeRequests)
            /\ UNCHANGED maxActiveRequests
       ELSE IF answer = "429"
       THEN \* slow down and call getJSONCb again at once
            /\ calls[c].attempts <= Max429PerCall
            /\ maxActiveRequests' = newMaxActiveRequests(maxActiveRequests)
            /\ calls' = [calls EXCEPT ![c].attempts = @ + 1]
            /\ UNCHANGED activeRequests
       ELSE IF answer = "404"
       THEN \* handler(err)
            /\ LET after == HandlerErr([calls[c] EXCEPT !.at404 = calls[c].attempts], ErrOf(answer))
               IN /\ calls' = [calls EXCEPT ![c] = after]
                  /\ activeRequests' = IF IsSettled(after) THEN releaseRequest(activeRequests) ELSE activeRequests
            /\ UNCHANGED maxActiveRequests
       ELSE \* any other error: the handler is never called, the call stays
            \* unsettled and keeps its slot
            /\ calls' = [calls EXCEPT ![c].pc = "hung", ![c].err = ErrOf(answer)]
            /\ UNCHANGED <<maxActiveRequests, activeRequests>>
    /\ UNCHANGED speed
    /\ UNCHANGED notDownloaderVars

\* errHandler(err, url, handler): slow down on a 429, then handler(err)
ErrHandler(c, call, err) ==
    LET after == HandlerErr(call, err)
    IN /\ maxActiveRequests' = IF err.status = "429"
                               THEN newMaxActiveRequests(maxActiveRequests)
                               ELSE maxActiveRequests
       /\ calls' = [calls EXCEPT ![c] = after]
       /\ activeRequests' = IF IsSettled(after) THEN releaseRequest(activeRequests) ELSE activeRequests

\* getContentCb / downloadImage: the upstream answers the GET of a
\* downloadContent call
GetContentAnswer(c, answer) ==
    /\ calls[c].pc = "inflight"
    /\ calls[c].kind = "downloadContent"
    /\ IF IsSuccess(answer)
       THEN /\ calls' = [calls EXCEPT ![c] = Settled(@, NoErr)]
            /\ activeRequests' = releaseRequest(activeRequests)
            /\ UNCHANGED maxActiveRequests
       ELSE ErrHandler(c, [calls[c] EXCEPT !.at404 = IF answer = "404" THEN calls[c].attempts ELSE @],
                       ErrOf(answer))
    /\ UNCHANGED speed
    /\ UNCHANGED notDownloaderVars

\* downloadImage: the blob cache answers s3.downloadBlob; the GET follows, or
\* the catch hands the error to errHandler
BlobCacheAnswer(c, ok) ==
    /\ calls[c].pc = "s3"
    /\ IF ok
       THEN /\ calls' = [calls EXCEPT ![c].pc = "inflight", ![c].attempts = @ + 1]
            /\ UNCHANGED <<maxActiveRequests, activeRequests>>
       ELSE ErrHandler(c, calls[c], S3Err)
    /\ UNCHANGED speed
    /\ UNCHANGED notDownloaderVars

\* the backoff delay is over: the function is invoked again
BackoffReady(c) ==
    /\ calls[c].pc = "backoff"
    /\ calls' = [calls EXCEPT ![c] = Invoked([@ EXCEPT !.retries = @ + 1])]
    /\ UNCHANGED <<speed, maxActiveRequests, activeRequests>>
    /\ UNCHANGED notDownloaderVars

\* the caller's await returns (the value, or the error thrown): the caller may
\* call the Downloader again
CallReturns(c) ==
    /\ IsSettled(calls[c])
    /\ calls' = [calls EXCEPT ![c] = IdleCall]
    /\ UNCHANGED <<speed, maxActiveRequests, activeRequests>>
    /\ UNCHANGED notDownloaderVars

\* ---- claims about the Downloader

\* C2: with speed >= 1, maxActiveRequests >= 1 in every reachable state; it
\* never increases, and every step that changes it is the handling of an HTTP
\* 429 response and makes it strictly smaller.
C2_MaxActiveRequests ==
    /\ [](maxActiveRequests >= 1)
    /\ [][maxActiveRequests' # maxActiveRequests =>
            /\ maxActiveRequests' < maxActiveRequests
            /\ \E c \in Calls : GetJSONAnswer(c, "429") \/ GetContentAnswer(c, "429")]_vars

\* a 429 has lowered the limit below speed * 10 while a request is in flight
C2_Witness ==
    /\ maxActiveRequests < speed * 10
    /\ \E c \in Calls : calls[c].pc = "inflight"

\* C6: when the upstream answers 404, getJSON, downloadContent and getArticle
\* make no further attempt (exactly one attempt when the 404 answers the first
\* GET) and reject with the error whose response status is 404.
C6_NotFoundIsNotRetried ==
    \A c \in Calls :
        calls[c].at404 > 0 =>
            /\ calls[c].pc = "rejected"
            /\ calls[c].err.status = "404"
            /\ calls[c].attempts = calls[c].at404
            /\ (calls[c].at404 = 1 => calls[c].attempts = 1)

\* a download through the blob cache was answered 404 at its first GET
C6_Witness ==
    \E c \in Calls :
        /\ calls[c].kind = "downloadContent" /\ calls[c].image
        /\ calls[c].at404 = 1
        /\ calls[c].pc = "rejected"

\* C22: downloadContent called with an empty URL rejects without claiming a
\* request slot and without issuing a request: activeRequests and
\* maxActiveRequests are unchanged.
C22_EmptyUrlRejects ==
    /\ [](\A c \in Calls : calls[c].err = InvalidUrl =>
              calls[c].pc = "rejected" /\ calls[c].attempts = 0)
    /\ [][\A c \in Calls :
              (calls[c].pc = "idle" /\ calls'[c].kind = "downloadContent"
                   /\ calls'[c].pc \notin {"claim"}) =>
                  /\ calls'[c].pc = "rejected"
                  /\ calls'[c].err = InvalidUrl
                  /\ activeRequests' = activeRequests
                  /\ maxActiveRequests' = maxActiveRequests]_vars

\* downloadContent('') has rejected after a 429 had lowered the limit
C22_Witness ==
    \E c \in Calls :
        /\ calls[c].err = InvalidUrl
        /\ calls[c].pc = "rejected"
        /\ maxActiveRequests < speed * RequestsPerSpeed

\* the upstream answers every GET or lets it time out, the blob cache
\* answers, the timers of claimRequest and of backoff fire
FairDownloader ==
    \A c \in Calls :
        /\ SF_vars(ClaimRequest(c))
        /\ WF_vars(\E answer \in Answers : GetJSONAnswer(c, answer))
        /\ WF_vars(\E answer \in Answers : GetContentAnswer(c, answer))
        /\ WF_vars(\E ok \in BOOLEAN : BlobCacheAnswer(c, ok))
        /\ WF_vars(BackoffReady(c))

\* C24: every getJSON and downloadContent call eventually settles, whatever
\* the upstream answers (429s, 5xx, timeouts): it resolves, or it rejects
\* after at most failAfter backoffs. The code does not keep this: after a
\* 5xx or a timeout getJSONCb never calls its handler.
C24_AsClaimed ==
    /\ \A c \in Calls : (calls[c].pc = "claim") ~> IsSettled(calls[c])
    /\ [](\A c \in Calls : calls[c].retries <= failAfter)

\* C25: an attempt that fails with a timeout or with a status other than 404
\* is retried by the backoff layer: the call is never left without a retry
\* before the limit of attempts, and it is rejected with such an error only
\* when the limit is reached. The code does not keep this for getJSON.
C25_AsClaimed ==
    \A c \in Calls :
        (calls[c].err # NoErr /\ calls[c].err # InvalidUrl /\ retryIf(calls[c].err)) =>
            (calls[c].pc = "rejected" /\ calls[c].retries = failAfter)

\* the handling of an HTTP 429 answer, by getJSONCb or by errHandler
Handles429 == \E c \in Calls : GetJSONAnswer(c, "429") \/ GetContentAnswer(c, "429")

\* C29 as the specification has it: every 429 handled with a limit above 1
\* makes the limit strictly smaller
C29_AsClaimed ==
    [][(Handles429 /\ maxActiveRequests > 1) => maxActiveRequests' < maxActiveRequests]_vars

\* C29: a 429 handled with maxActiveRequests = m >= 10 makes the limit
\* ceil(0.9 * m), strictly less than m; handled with m <= 9 it leaves the
\* limit as it is, so a run of 429 answers drives the limit down to 9 and
\* no further.
C29_ReducesDownToNine ==
    /\ [][Handles429 =>
             /\ maxActiveRequests >= 10 => maxActiveRequests' < maxActiveRequests
             /\ maxActiveRequests <= 9 => maxActiveRequests' = maxActiveRequests]_vars
    /\ [](maxActiveRequests >= 9)

\* a getJSON call was answered 429 twice, the second time with the limit at 9
C29_Witness ==
    /\ speed = 1
    /\ maxActiveRequests = 9
    /\ \E c \in Calls :
           calls[c].kind = "getJSON" /\ calls[c].pc = "inflight" /\ calls[c].attempts = 3

\* the call holds a request slot: claimRequest has returned and the terminal
\* callback has not run
HoldsSlot(call) == call.pc \in {"inflight", "s3", "backoff", "hung"}

\* C36: every request slot claimed by getJSON or downloadContent is released
\* exactly once, when the call settles: activeRequests always equals the
\* number of calls that have claimed a slot and are not yet settled, it is 0
\* whenever no call is outstanding, the step that settles a call holding a
\* slot lowers it by exactly 1, and no other step lowers it.
C36_SlotsReleasedOnce ==
    /\ [](activeRequests = Cardinality({c \in DOMAIN calls : HoldsSlot(calls[c])}))
    /\ []((\A c \in DOMAIN calls : calls[c].pc = "idle" \/ IsSettled(calls[c])) => activeRequests = 0)
    /\ [][\A c \in DOMAIN calls :
             (HoldsSlot(calls[c]) /\ IsSettled(calls'[c])) => activeRequests' = activeRequests - 1]_vars
    /\ [][activeRequests' < activeRequests =>
             \E c \in DOMAIN calls : HoldsSlot(calls[c]) /\ IsSettled(calls'[c])]_vars

\* the calls in progress together, and the answers of the upstream to each:
\* only the GETs of the first call meet the failures that are retried
SlotCalls == 1..MaxSlotCalls
JSONAnswersTo(c) == IF c = 1 THEN Answers ELSE {"200", "404", "500"}
ContentAnswersTo(c) == IF c = 1 THEN Answers ELSE {"200", "404"}

InitSlots ==
    /\ speed = 1
    /\ maxActiveRequests = speed * RequestsPerSpeed
    /\ activeRequests = 0
    /\ calls = [c \in SlotCalls |-> IdleCall]

\* the first call waits for its retry, holding its slot, while another call
\* was rejected with a 404 and has given its slot back
C36_Witness ==
    \E d \in DOMAIN calls :
        /\ calls[1].pc = "backoff"
        /\ calls[d].pc = "rejected" /\ calls[d].err.status = "404" /\ calls[d].attempts > 0
        /\ activeRequests = 1

\* ---------------------------------------------------------------- saveArticles
\* store.get(key): <<value>>, or <<>> for a missing key (undefined)
StoreLookup(store, key) == IF key \in DOMAIN store THEN <<store[key]>> ELSE <<>>

\* the keys of a batch in the order the worker walks them
RECURSIVE SetToSeq(_)
SetToSeq(S) == IF S = {} THEN <<>> ELSE LET x == CHOOSE y \in S : TRUE IN <<x>> \o SetToSeq(S \ {x})

\* a number, or undefined: <<n>> or <<>>
OptionalSizes == {<<>>} \cup {<<n>> : n \in 1..MaxSize}

\* ---------------------------------------------------------------- strings and URI escaping
\* the i-th character of a string
Char(s, i) == SubSeq(s, i, i)

\* the number of occurrences of the character c in s
RECURSIVE CountFrom(_, _, _)
CountFrom(s, c, i) ==
    IF i > Len(s) THEN 0
    ELSE (IF Char(s, i) = c THEN 1 ELSE 0) + CountFrom(s, c, i + 1)

\* String.prototype.repeat
RECURSIVE Repeat(_, _)
Repeat(s, n) == IF n = 0 THEN "" ELSE s \o Repeat(s, n - 1)

\* the escape sequences of the characters the model writes, by their two
\* hexadecimal digits (upper case, as encodeURIComponent writes them)
Octets ==
    [hex \in {"22", "25", "2F", "52", "55", "5F"} |->
        CASE hex = "22" -> "\""
          [] hex = "25" -> "%"
          [] hex = "2F" -> "/"
          [] hex = "52" -> "R"
          [] hex = "55" -> "U"
          [] hex = "5F" -> "_"]

\* the characters encodeURIComponent escapes, among those of Octets
Escaped == {"\"", "%", "/"}

\* the characters decodeURI leaves escaped (reserved in a URI), among those of Octets
Reserved == {"/"}

\* encodeURIComponent, one character
EncodeChar(c) ==
    IF c \in Escaped THEN "%" \o (CHOOSE hex \in DOMAIN Octets : Octets[hex] = c) ELSE c

RECURSIVE EncodeFrom(_, _)
EncodeFrom(s, i) == IF i > Len(s) THEN "" ELSE EncodeChar(Char(s, i)) \o EncodeFrom(s, i + 1)

encodeURIComponent(s) == EncodeFrom(s, 1)

\* decodeURI / decodeURIComponent from position i on: <<decoded>>, or <<>> for
\* a URIError (a "%" without two hexadecimal digits of a complete character)
RECURSIVE DecodeFrom(_, _, _)
DecodeFrom(s, i, kept) ==
    IF i > Len(s) THEN <<"">>
    ELSE IF Char(s, i) # "%"
    THEN LET rest == DecodeFrom(s, i + 1, kept)
         IN IF rest = <<>> THEN <<>> ELSE <<Char(s, i) \o rest[1]>>
    ELSE IF i + 2 > Len(s) \/ SubSeq(s, i + 1, i + 2) \notin DOMAIN Octets
    THEN <<>>
    ELSE LET hex == SubSeq(s, i + 1, i + 2)
             rest == DecodeFrom(s, i + 3, kept)
         IN IF rest = <<>> THEN <<>>
            ELSE <<(IF Octets[hex] \in kept THEN "%" \o hex ELSE Octets[hex]) \o rest[1]>>

decodeURI(s) == DecodeFrom(s, 1, Reserved)

decodeURIComponent(s) == DecodeFrom(s, 1, {})

\* String.prototype.indexOf / lastIndexOf of a character (0 when absent, else
\* the position counted from 1)
RECURSIVE IndexFrom(_, _, _)
IndexFrom(s, c, i) ==
    IF i > Len(s) THEN 0 ELSE IF Char(s, i) = c THEN i ELSE IndexFrom(s, c, i + 1)

RECURSIVE LastIndexFrom(_, _, _)
LastIndexFrom(s, c, i) ==
    IF i = 0 THEN 0 ELSE IF Char(s, i) = c THEN i ELSE LastIndexFrom(s, c, i - 1)

\* s.indexOf(p) === 0
StartsWith(s, p) == Len(s) >= Len(p) /\ SubSeq(s, 1, Len(p)) = p

\* the part of s from position i on
Substr(s, i) == SubSeq(s, i, Len(s))

\* the strings of at most n characters of the given alphabet
RECURSIVE Strings(_, _)
Strings(alphabet, n) ==
    IF n = 0 THEN {""}
    ELSE LET shorter == Strings(alphabet, n - 1)
         IN shorter \cup {s \o c : s \in shorter, c \in alphabet}

\* a media URL by what the code reads of it: the file it shows, the width n of
\* a "/<n>px-" part and the multiplier n of a "-<n>x." part (none, or "-2x.")
MediaUrls == [file : {"F.png"}, px : OptionalSizes, x : {<<>>, <<2>>}]

\* the media dependencies of one shard: none, or one URL
MediaDependencies == {<<>>} \cup {<<url>> : url \in MediaUrls}

\* getSizeFromUrl: the width if the URL has one, else the multiplier if it has one
getSizeFromUrl(url) ==
    IF url.px # <<>> THEN [mult |-> <<>>, width |-> url.px]
    ELSE IF url.x # <<>> THEN [mult |-> url.x, width |-> <<>>]
    ELSE [mult |-> <<>>, width |-> <<>>]

\* getMediaBase as it would be if it never escaped
getMediaBaseUnescaped(url, escape) ==
    IF url.px # <<>> THEN decodeURI(url.file)[1] ELSE "md5(" \o decodeURI(url.file)[1] \o ")"

\* getMediaBase: the file name of a thumbnail whatever its width, otherwise a
\* hash of the whole decoded URL; escaped on demand
getMediaBase(url, escape) ==
    LET decodedUrl == decodeURI(url.file)[1]
        filename ==
            IF url.px # <<>> THEN decodedUrl
            ELSE "md5(" \o decodedUrl
                     \o (IF url.x = <<>> THEN "" ELSE "-" \o ToString(url.x[1]) \o "x") \o ")"
    IN IF escape THEN encodeURIComponent(filename) ELSE filename

\* JavaScript's a < b on numbers that may be undefined (false with undefined)
JsLess(a, b) == a # <<>> /\ b # <<>> /\ a[1] < b[1]

\* !existingVal || existingVal.width < width || existingVal.mult < mult
currentDepIsHigherRes(existingVal, size) ==
    \/ existingVal = <<>>
    \/ JsLess(existingVal[1].width, size.width)
    \/ JsLess(existingVal[1].mult, size.mult)

\* { url: dep.url, namespace: 'I', mult, width }
FileTask(url, size) == [url |-> url, namespace |-> "I", mult |-> size.mult, width |-> size.width]

\* getArticle resolved: the ids renderArticle returns with their html, and the
\* store after renderArticle's writes
RenderedIds(store, articleId, isMainPage, restApi, html) ==
    IF IsRendered(isMainPage, restApi)
    THEN <<[articleId |-> articleId, html |-> html]>>
    ELSE [i \in 1..numberOfPagesToSplitInto(Len(store[articleId].subCategories)) |->
             [articleId |-> ShardId(articleId, i - 1), html |-> TRUE]]

RECURSIVE StoreShards(_, _, _, _, _)
StoreShards(store, articleDetail, articleId, i, n) ==
    IF i >= n THEN store
    ELSE StoreShards(StoreSet(store, ShardId(articleId, i), ShardDetail(articleDetail, articleId, i, n)),
                     articleDetail, articleId, i + 1, n)

RenderedStore(store, articleId, isMainPage, restApi) ==
    LET len == Len(store[articleId].subCategories)
    IN IF IsRendered(isMainPage, restApi) \/ ~ShardIsStored(len)
       THEN store
       ELSE StoreShards(store, store[articleId], articleId, 0, numberOfPagesToSplitInto(len))

IdleWorker ==
    [pc |-> "idle", batch |-> <<>>, rets |-> <<>>, deps |-> <<>>, existing |-> <<>>]

Workers == DOMAIN workers

\* the article the worker is at
CurrentArticle(w) == Head(workers[w].batch)

\* the position after the article the worker is at: the next of the batch, or
\* back to iterateItems for another batch
AfterArticle(worker) ==
    [worker EXCEPT !.batch = Tail(@), !.rets = <<>>, !.deps = <<>>, !.existing = <<>>,
                   !.pc = IF Tail(worker.batch) = <<>> THEN "idle" ELSE "getArticle"]

\* the position after the shard the worker is at: the next shard, or after
\* the last one the next article
AfterShard(worker) ==
    IF Tail(worker.rets) = <<>> THEN AfterArticle(worker)
    ELSE [worker EXCEPT !.rets = Tail(@), !.pc = "shard"]

InitArticles ==
    /\ speed \in 1..MaxSpeed
    /\ workers = [w \in 1..speed |-> IdleWorker]
    /\ mainPage = "Main_Page"
    /\ restApiAvailable \in BOOLEAN
    /\ articleDetailXId = [id \in {"Main_Page", "Category:C"} |->
                              Detail(id, IF id = "Category:C" THEN SubCategoriesPerPage + 1 ELSE 0)]
    /\ redirectsXId = [id \in {"R"} |-> "Main_Page"]
    /\ pendingKeys = {"Main_Page", "Category:C"}
    /\ filesToDownloadXPath = <<>>
    /\ scrapeStatus = [articles |-> [success |-> 0, fail |-> 0], files |-> [success |-> 0, fail |-> 0]]
    /\ archiveA = {}
    /\ articlesPhase = "running"
    /\ inserted = <<>>
    /\ fetchFailed = {}

IdleArticles ==
    /\ filesToDownloadXPath = <<>>
    /\ redirectsXId = <<>>
    /\ scrapeStatus = [articles |-> [success |-> 0, fail |-> 0], files |-> [success |-> 0, fail |-> 0]]
    /\ archiveA = {}
    /\ mainPage = ""
    /\ restApiAvailable = TRUE
    /\ pendingKeys = {}
    /\ workers = <<>>
    /\ articlesPhase = "idle"
    /\ inserted = <<>>
    /\ fetchFailed = {}

\* iterateItems hands the worker a batch of keys no other worker was given
TakeBatch(w) ==
    /\ workers[w].pc = "idle"
    /\ \E batch \in SUBSET pendingKeys :
          /\ batch # {}
          /\ pendingKeys' = pendingKeys \ batch
          /\ workers' = [workers EXCEPT ![w].batch = SetToSeq(batch), ![w].pc = "getArticle"]
    /\ UNCHANGED <<speed, articleDetailXId, filesToDownloadXPath, redirectsXId, scrapeStatus, archiveA,
                   mainPage, restApiAvailable, articlesPhase, inserted, fetchFailed>>
    /\ UNCHANGED notArticleVars

\* iterateItems has no key left for the worker
WorkerDone(w) ==
    /\ workers[w].pc = "idle"
    /\ pendingKeys = {}
    /\ workers' = [workers EXCEPT ![w].pc = "done"]
    /\ UNCHANGED <<speed, articleDetailXId, filesToDownloadXPath, redirectsXId, scrapeStatus, archiveA,
                   mainPage, restApiAvailable, pendingKeys, articlesPhase, inserted, fetchFailed>>
    /\ UNCHANGED notArticleVars

\* lines 128-132, the catch: articles.fail += 1 and articleDetailXId.delete(articleId)
\* of the article (not the shard) the worker is at; the for loop goes on
CatchDeletes(store, articleId) == StoreDelete(store, articleId)

CatchRethrows(worker) == [worker EXCEPT !.pc = "threw"]
CatchGoesOn(worker) == AfterArticle(worker)

Catch(w) ==
    /\ scrapeStatus' = [scrapeStatus EXCEPT !.articles.fail = @ + 1]
    /\ articleDetailXId' = CatchDeletes(articleDetailXId, CurrentArticle(w))
    /\ workers' = [workers EXCEPT ![w] = CatchGoesOn(@)]

\* line 88: await downloader.getArticle(articleId, dump) resolves with the
\* rendered shards (on the desktop path possibly without html), or rejects
GetArticle(w) ==
    /\ workers[w].pc = "getArticle"
    /\ LET articleId == CurrentArticle(w)
           isMainPage == articleId = mainPage
       IN \/ /\ \E html \in BOOLEAN :
                   /\ ~html => IsRendered(isMainPage, restApiAvailable)
                   /\ workers' = [workers EXCEPT
                          ![w].rets = RenderedIds(articleDetailXId, articleId, isMainPage, restApiAvailable, html),
                          ![w].pc = "shard"]
             /\ articleDetailXId' = RenderedStore(articleDetailXId, articleId, isMainPage, restApiAvailable)
             /\ UNCHANGED <<scrapeStatus, fetchFailed>>
          \/ /\ Catch(w)
             /\ fetchFailed' = fetchFailed \cup {articleId}
    /\ UNCHANGED <<speed, filesToDownloadXPath, redirectsXId, archiveA, mainPage, restApiAvailable,
                   pendingKeys, articlesPhase, inserted>>
    /\ UNCHANGED notArticleVars

\* lines 94-97: no HTML returned for the shard: continue
SkipEmptyShard(w) ==
    /\ workers[w].pc = "shard"
    /\ workers[w].rets # <<>>
    /\ ~Head(workers[w].rets).html
    /\ workers' = [workers EXCEPT ![w] = AfterShard(@)]
    /\ UNCHANGED <<speed, articleDetailXId, filesToDownloadXPath, redirectsXId, scrapeStatus, archiveA,
                   mainPage, restApiAvailable, pendingKeys, articlesPhase, inserted, fetchFailed>>
    /\ UNCHANGED notArticleVars

\* line 99: processArticleHtml returns the shard's media dependencies, or throws
ProcessArticleHtml(w) ==
    /\ workers[w].pc = "shard"
    /\ workers[w].rets # <<>>
    /\ Head(workers[w].rets).html
    /\ \/ /\ \E deps \in MediaDependencies :
                workers' = [workers EXCEPT ![w].deps = deps,
                                           ![w].pc = IF deps = <<>> THEN "addArticle" ELSE "depGet"]
          /\ UNCHANGED <<scrapeStatus, articleDetailXId>>
       \/ Catch(w)
    /\ UNCHANGED <<speed, filesToDownloadXPath, redirectsXId, archiveA, mainPage, restApiAvailable,
                   pendingKeys, articlesPhase, inserted, fetchFailed>>
    /\ UNCHANGED notArticleVars

\* line 104: const existingVal = await filesToDownloadXPath.get(dep.path)
DepGet(w) ==
    /\ workers[w].pc = "depGet"
    /\ workers' = [workers EXCEPT
           ![w].existing = StoreLookup(filesToDownloadXPath, getMediaBase(Head(workers[w].deps), FALSE)),
           ![w].pc = "depSet"]
    /\ UNCHANGED <<speed, articleDetailXId, filesToDownloadXPath, redirectsXId, scrapeStatus, archiveA,
                   mainPage, restApiAvailable, pendingKeys, articlesPhase, inserted, fetchFailed>>
    /\ UNCHANGED notArticleVars

\* lines 105-108: set the entry when the dependency is of higher resolution
\* than the value read at line 104
DepSet(w) ==
    /\ workers[w].pc = "depSet"
    /\ LET url == Head(workers[w].deps)
           path == getMediaBase(url, FALSE)
           size == getSizeFromUrl(url)
           before == IF path \in DOMAIN inserted THEN inserted[path] ELSE {}
       IN /\ filesToDownloadXPath' =
                 IF currentDepIsHigherRes(workers[w].existing, size)
                 THEN StoreSet(filesToDownloadXPath, path, FileTask(url, size))
                 ELSE filesToDownloadXPath
          /\ inserted' = StoreSet(inserted, path, before \cup {size})
    /\ workers' = [workers EXCEPT ![w].deps = Tail(@), ![w].existing = <<>>,
                                  ![w].pc = IF Tail(workers[w].deps) = <<>> THEN "addArticle" ELSE "depGet"]
    /\ UNCHANGED <<speed, articleDetailXId, redirectsXId, scrapeStatus, archiveA,
                   mainPage, restApiAvailable, pendingKeys, articlesPhase, fetchFailed>>
    /\ UNCHANGED notArticleVars

\* lines 111-126: getModuleDependencies, templateArticle, zimCreator.addArticle
\* of the shard under its id in namespace 'A' and articles.success += 1, or one
\* of the three throws; after the last shard the for loop over rets is over
AddArticle(w) ==
    /\ workers[w].pc = "addArticle"
    /\ \/ /\ archiveA' = archiveA \cup {Head(workers[w].rets).articleId}
          /\ scrapeStatus' = [scrapeStatus EXCEPT !.articles.success = @ + 1]
          /\ workers' = [workers EXCEPT ![w] = AfterShard(@)]
          /\ UNCHANGED articleDetailXId
       \/ /\ Catch(w)
          /\ UNCHANGED archiveA
    /\ UNCHANGED <<speed, filesToDownloadXPath, redirectsXId, mainPage, restApiAvailable,
                   pendingKeys, articlesPhase, inserted, fetchFailed>>
    /\ UNCHANGED notArticleVars

\* lines 143-152: iterateItems has resolved (every worker is done); the
\* jsConfigVars entry is added to namespace '-' and saveArticles returns
ArticlesReturn ==
    /\ articlesPhase = "running"
    /\ \A w \in Workers : workers[w].pc = "done"
    /\ articlesPhase' = "returned"
    /\ UNCHANGED <<speed, articleDetailXId, filesToDownloadXPath, redirectsXId, scrapeStatus, archiveA,
                   mainPage, restApiAvailable, pendingKeys, workers, inserted, fetchFailed>>
    /\ UNCHANGED notArticleVars

\* ---------------------------------------------------------------- saveArticles: claims
\* the largest of a set of numbers that may be undefined; undefined if none is a number
MaxDefined(S) ==
    IF \A x \in S : x = <<>> THEN <<>>
    ELSE <<CHOOSE n \in 1..MaxSize + 2 : <<n>> \in S /\ \A x \in S : x = <<>> \/ x[1] <= n>>

\* C1 as the specification states it: once saveArticles has returned, the entry
\* stored in filesToDownload for a path has the largest width and the largest
\* mult of all the dependencies that were inserted for that path. The code does
\* not keep this: two workers that read the entry (line 104) before either
\* writes it (line 107) leave the entry of whoever writes last.
C1_AsClaimed ==
    articlesPhase = "returned" =>
        \A path \in DOMAIN inserted :
            /\ path \in DOMAIN filesToDownloadXPath
            /\ filesToDownloadXPath[path].width = MaxDefined({size.width : size \in inserted[path]})
            /\ filesToDownloadXPath[path].mult = MaxDefined({size.mult : size \in inserted[path]})

\* C3 as the specification states it: every id saveArticles has added to
\* namespace 'A' of the archive is a key of articleDetailXId, or a redirect
\* whose target is in the archive. The code does not keep this: when a later
\* shard of an article throws, the catch deletes the article's detail while the
\* first shard, whose id is the article's id, stays in the archive.
C3_AsClaimed ==
    \A id \in archiveA :
        \/ id \in DOMAIN articleDetailXId
        \/ id \in DOMAIN redirectsXId /\ redirectsXId[id] \in archiveA

\* the archive ids renderArticle can give the shards of an article
ShardIdsOf(articleId) == {articleId} \cup {ShardId(articleId, i) : i \in 1..2}

\* C7: when getArticle rejects, that step adds exactly 1 to articles.fail and
\* nothing to the archive, the worker does not throw but stands at the next
\* article of its batch (or asks iterateItems for the next batch), and no
\* entry of namespace 'A' ever belongs to an article whose fetch failed.
C7_FetchFailureIsCounted ==
    /\ [](\A id \in fetchFailed : ShardIdsOf(id) \cap archiveA = {})
    /\ [](\A w \in Workers : workers[w].pc # "threw")
    /\ [][fetchFailed' # fetchFailed =>
            /\ scrapeStatus'.articles.fail = scrapeStatus.articles.fail + 1
            /\ scrapeStatus'.articles.success = scrapeStatus.articles.success
            /\ archiveA' = archiveA
            /\ \E w \in Workers :
                  /\ workers[w].pc = "getArticle"
                  /\ fetchFailed' = fetchFailed \cup {CurrentArticle(w)}
                  /\ workers'[w].batch = Tail(workers[w].batch)
                  /\ workers'[w].pc = IF workers'[w].batch = <<>> THEN "idle" ELSE "getArticle"
                  /\ \A v \in Workers \ {w} : workers'[v] = workers[v]]_vars

\* the fetch of the first article of a batch has failed and the worker stands
\* at the second one
C7_Witness ==
    \E w \in Workers :
        /\ workers[w].pc = "getArticle"
        /\ fetchFailed # {}
        /\ CurrentArticle(w) \notin fetchFailed
        /\ scrapeStatus.articles.fail = 1
        /\ archiveA = {}

\* C26: under any interleaving of the article workers that enqueue media for
\* the same archive path (each reads the entry, then writes), the width and
\* the mult stored for the path never decrease. The code does not keep this:
\* a worker that read the entry before another wrote it overwrites the
\* other's entry with its own, of lower resolution.
C26_AsClaimed ==
    [][\A path \in DOMAIN filesToDownloadXPath :
           /\ path \in DOMAIN filesToDownloadXPath'
           /\ ~JsLess(filesToDownloadXPath'[path].width, filesToDownloadXPath[path].width)
           /\ ~JsLess(filesToDownloadXPath'[path].mult, filesToDownloadXPath[path].mult)]_vars

\* ---------------------------------------------------------------- downloadFiles
\* the two calls of downloadFiles: isRetry = false on filesToDownloadXPath,
\* and from within it isRetry = true on filesToRetryXPath
Pass(isRetry) == IF isRetry THEN "retry" ELSE "first"

FileWorkers == 1..speed

\* the paths of a store of n files, and the task stored for a path
FilePaths(n) == {"F" \o ToString(i) \o ".png" : i \in 1..n}
FileTaskOf(path) ==
    LET url == [file |-> path, px |-> <<1>>, x |-> <<>>]
    IN FileTask(url, getSizeFromUrl(url))

\* the (path, task) pairs of a batch, handed to the worker by value
BatchOf(store, paths) ==
    LET keys == SetToSeq(paths)
    IN [i \in 1..Len(keys) |-> [path |-> keys[i], task |-> store[keys[i]]]]

\* downloadFiles as it would be if the nested call iterated filesToDownloadXPath again
FileStoreFirst(isRetry) == filesToDownloadXPath

\* the store a call of downloadFiles iterates
FileStore(isRetry) == IF isRetry THEN filesToRetryXPath ELSE filesToDownloadXPath

\* the file the worker is at
CurrentFile(isRetry, w) == Head(fileWorkers[Pass(isRetry)][w].batch)

\* the position after the file the worker is at
AfterFile(worker) ==
    [worker EXCEPT !.batch = Tail(@),
                   !.pc = IF Tail(worker.batch) = <<>> THEN "idle" ELSE "file"]

InitFiles ==
    /\ speed \in 1..MaxSpeed
    /\ \E n \in 0..MaxFiles : filesToDownloadXPath = [path \in FilePaths(n) |-> FileTaskOf(path)]
    /\ filesToRetryXPath = <<>>
    /\ scrapeStatus = [articles |-> [success |-> 0, fail |-> 0], files |-> [success |-> 0, fail |-> 0]]
    /\ filePending = [first |-> DOMAIN filesToDownloadXPath, retry |-> {}]
    /\ fileWorkers = [first |-> [w \in 1..speed |-> [pc |-> "idle", batch |-> <<>>]],
                      retry |-> [w \in 1..speed |-> [pc |-> "notStarted", batch |-> <<>>]]]
    /\ filesPhase = "running"
    /\ archiveI = {}
    /\ fileLog = [path \in DOMAIN filesToDownloadXPath |-> <<>>]

IdleFiles ==
    /\ filesToRetryXPath = <<>>
    /\ filePending = [first |-> {}, retry |-> {}]
    /\ fileWorkers = [first |-> <<>>, retry |-> <<>>]
    /\ filesPhase = "idle"
    /\ archiveI = {}
    /\ fileLog = <<>>

\* iterateItems hands the worker a batch of keys no other worker was given
FileTakeBatch(isRetry, w) ==
    /\ fileWorkers[Pass(isRetry)][w].pc = "idle"
    /\ \E batch \in SUBSET filePending[Pass(isRetry)] :
          /\ batch # {}
          /\ filePending' = [filePending EXCEPT ![Pass(isRetry)] = @ \ batch]
          /\ fileWorkers' = [fileWorkers EXCEPT ![Pass(isRetry)][w] =
                                [pc |-> "file", batch |-> BatchOf(FileStore(isRetry), batch)]]
    /\ UNCHANGED <<speed, filesToDownloadXPath, scrapeStatus, filesToRetryXPath, filesPhase, archiveI, fileLog>>
    /\ UNCHANGED notFileVars

\* iterateItems has no key left for the worker
FileWorkerDone(isRetry, w) ==
    /\ fileWorkers[Pass(isRetry)][w].pc = "idle"
    /\ filePending[Pass(isRetry)] = {}
    /\ fileWorkers' = [fileWorkers EXCEPT ![Pass(isRetry)][w].pc = "done"]
    /\ UNCHANGED <<speed, filesToDownloadXPath, scrapeStatus, filesToRetryXPath, filePending, filesPhase,
                   archiveI, fileLog>>
    /\ UNCHANGED notFileVars

\* line 41: downloader.downloadContent(url) is called
FileStart(isRetry, w) ==
    /\ fileWorkers[Pass(isRetry)][w].pc = "file"
    /\ fileWorkers' = [fileWorkers EXCEPT ![Pass(isRetry)][w].pc = "downloading"]
    /\ fileLog' = [fileLog EXCEPT ![CurrentFile(isRetry, w).path] =
                      Append(@, [pass |-> Pass(isRetry), result |-> "started"])]
    /\ UNCHANGED <<speed, filesToDownloadXPath, scrapeStatus, filesToRetryXPath, filePending, filesPhase, archiveI>>
    /\ UNCHANGED notFileVars

\* line 48: if (!isRetry) ... else ...
FailureIsTerminalAlways(isRetry) == TRUE
FailureIsTerminal(isRetry) == isRetry

\* lines 41-56: the download and zimCreator.addArticle succeed and
\* files.success += 1; or one of them throws: in the first pass the task goes
\* to filesToRetryXPath, in the retry pass files.fail += 1 and the path is
\* deleted from filesToDownloadXPath
FileSettle(isRetry, w) ==
    /\ fileWorkers[Pass(isRetry)][w].pc = "downloading"
    /\ LET file == CurrentFile(isRetry, w)
       IN \E ok \in BOOLEAN :
             /\ fileLog' = [fileLog EXCEPT ![file.path] =
                               [@ EXCEPT ![Len(@)].result = IF ok THEN "ok" ELSE "failed"]]
             /\ IF ok
                THEN /\ archiveI' = archiveI \cup {file.path}
                     /\ scrapeStatus' = [scrapeStatus EXCEPT !.files.success = @ + 1]
                     /\ UNCHANGED <<filesToRetryXPath, filesToDownloadXPath>>
                ELSE IF ~FailureIsTerminal(isRetry)
                THEN /\ filesToRetryXPath' = StoreSet(filesToRetryXPath, file.path,
                            [url |-> file.task.url, namespace |-> file.task.namespace,
                             mult |-> file.task.mult, width |-> file.task.width])
                     /\ UNCHANGED <<archiveI, scrapeStatus, filesToDownloadXPath>>
                ELSE /\ scrapeStatus' = [scrapeStatus EXCEPT !.files.fail = @ + 1]
                     /\ filesToDownloadXPath' = StoreDelete(filesToDownloadXPath, file.path)
                     /\ UNCHANGED <<archiveI, filesToRetryXPath>>
    /\ fileWorkers' = [fileWorkers EXCEPT ![Pass(isRetry)][w] = AfterFile(@)]
    /\ UNCHANGED <<speed, filePending, filesPhase>>
    /\ UNCHANGED notFileVars

\* iterateItems resolves when every worker has finished
iterateItemsResolved(ws) == \A w \in DOMAIN ws : ws[w].pc = "done"

\* line 35: the first call awaits its iterateItems before line 68
FirstPassNotAwaited == TRUE
FirstPassAwaited == iterateItemsResolved(fileWorkers.first)

\* lines 68-70 and 31-35 of the nested call: if (!isRetry) await
\* downloadFiles(filesToRetryXPath, zimCreator, downloader, true), which
\* iterates filesToRetryXPath
StartRetryPass ==
    /\ filesPhase = "running"
    /\ FirstPassAwaited
    /\ \A w \in FileWorkers : fileWorkers.retry[w].pc = "notStarted"
    /\ fileWorkers' = [fileWorkers EXCEPT !.retry = [w \in FileWorkers |-> [pc |-> "idle", batch |-> <<>>]]]
    /\ filePending' = [filePending EXCEPT !.retry = DOMAIN FileStore(TRUE)]
    /\ UNCHANGED <<speed, filesToDownloadXPath, scrapeStatus, filesToRetryXPath, filesPhase, archiveI, fileLog>>
    /\ UNCHANGED notFileVars

\* the nested call returns, and with it the first call
FilesReturn ==
    /\ filesPhase = "running"
    /\ iterateItemsResolved(fileWorkers.retry)
    /\ iterateItemsResolved(fileWorkers.first)
    /\ filesPhase' = "returned"
    /\ UNCHANGED <<speed, filesToDownloadXPath, scrapeStatus, filesToRetryXPath, filePending, fileWorkers,
                   archiveI, fileLog>>
    /\ UNCHANGED notFileVars

\* ---------------------------------------------------------------- downloadFiles: claims
\* C4: while a worker of the retry pass has a download under way (or has
\* started any), every worker of the first pass has finished all its batches.
C4_RetryAfterFirstPass ==
    (\E w \in FileWorkers : fileWorkers.retry[w].pc # "notStarted")
        => \A w \in FileWorkers : fileWorkers.first[w].pc = "done" /\ filePending.first = {}

\* a download of the retry pass is under way with two workers
C4_Witness ==
    /\ speed > 1
    /\ \E w \in FileWorkers : fileWorkers.retry[w].pc = "downloading"

\* the downloads of a path that failed in the given pass
FailedIn(path, pass) == {i \in 1..Len(fileLog[path]) : fileLog[path][i] = [pass |-> pass, result |-> "failed"]}

\* C5: a failure in the first pass puts the task, as it was stored in
\* filesToDownloadXPath, into filesToRetryXPath and leaves files.fail alone; a
\* failure in the retry pass adds exactly 1 to files.fail; a path is
\* downloaded at most once per pass, and in the retry pass only after it
\* failed in the first, so never again after it failed in the retry pass.
C5_FileFailures ==
    /\ [](\A path \in DOMAIN fileLog :
            /\ Len(fileLog[path]) <= 2
            /\ Len(fileLog[path]) >= 1 => fileLog[path][1].pass = "first"
            /\ Len(fileLog[path]) = 2 =>
                  fileLog[path][1].result = "failed" /\ fileLog[path][2].pass = "retry"
            /\ FailedIn(path, "first") # {} =>
                  path \in DOMAIN filesToRetryXPath /\ filesToRetryXPath[path] = FileTaskOf(path))
    /\ [](scrapeStatus.files.fail = Cardinality({path \in DOMAIN fileLog : FailedIn(path, "retry") # {}}))
    /\ [][\A path \in DOMAIN fileLog :
            /\ FailedIn(path, "first")' # FailedIn(path, "first") =>
                  scrapeStatus'.files.fail = scrapeStatus.files.fail
            /\ FailedIn(path, "retry")' # FailedIn(path, "retry") =>
                  scrapeStatus'.files.fail = scrapeStatus.files.fail + 1]_vars

\* a file has failed in both passes and downloadFiles has returned
C5_Witness ==
    /\ filesPhase = "returned"
    /\ \E path \in DOMAIN fileLog : FailedIn(path, "first") # {} /\ FailedIn(path, "retry") # {}
    /\ scrapeStatus.files.fail = 1

\* the downloads of a path that ended with the given result
EndedWith(path, result) == {i \in 1..Len(fileLog[path]) : fileLog[path][i].result = result}

\* C37: when downloadFiles returns, having started with N file tasks and an
\* empty filesToRetryXPath, files.success + files.fail has grown by exactly N
\* (both start at 0), every task was attempted at most twice, at most once in
\* each pass, and an archive entry was added at most once for each path.
C37_EveryFileCountedOnce ==
    filesPhase = "returned" =>
        /\ scrapeStatus.files.success + scrapeStatus.files.fail = Cardinality(DOMAIN fileLog)
        /\ \A path \in DOMAIN fileLog :
              /\ Len(fileLog[path]) <= 2
              /\ \A i, j \in 1..Len(fileLog[path]) : i # j => fileLog[path][i].pass # fileLog[path][j].pass
              /\ Cardinality(EndedWith(path, "ok")) <= 1
              /\ EndedWith(path, "ok") # {} <=> path \in archiveI

\* downloadFiles has returned with one file added in the first pass and one
\* added in the retry pass
C37_Witness ==
    /\ filesPhase = "returned"
    /\ \E p, q \in DOMAIN fileLog :
          /\ Len(fileLog[p]) = 1 /\ fileLog[p][1].result = "ok"
          /\ Len(fileLog[q]) = 2 /\ fileLog[q][2].result = "ok"
    /\ scrapeStatus.files.success >= 2

\* ---------------------------------------------------------------- the dump (async.series)
\* the tasks of the outer series from getArticleIds on, then of the series of one dump
SeriesTasks ==
    <<"getArticleIds", "cacheRedirects", "createSubDirectories", "saveStaticFiles", "saveStylesheet",
      "saveFavicon", "getMainPage", "saveHtmlRedirects", "saveArticles", "drainDownloadFileQueue",
      "drainOptimizationQueue", "buildZIM", "delMediaDB">>

\* async.series: the task that starts when the given one calls finished()
NextTask(t) ==
    LET i == CHOOSE j \in 1..Len(SeriesTasks) : SeriesTasks[j] = t
    IN IF i = Len(SeriesTasks) THEN "done" ELSE SeriesTasks[i + 1]

InitDump ==
    /\ task = "getArticleIds"
    /\ mobileLayout \in BOOLEAN
    /\ articleIdsEnumerated = FALSE
    /\ redirectsCached = FALSE
    /\ articlesLeft = 0
    /\ articlesSaved = 0
    /\ staticWrites = 0
    /\ moduleDownloads = 0
    /\ downloadFileQueue = 0
    /\ optimizationQueue = 0

IdleDump ==
    /\ task = "idle"
    /\ mobileLayout = FALSE
    /\ articleIdsEnumerated = FALSE
    /\ redirectsCached = FALSE
    /\ articlesLeft = 0
    /\ articlesSaved = 0
    /\ staticWrites = 0
    /\ moduleDownloads = 0
    /\ downloadFileQueue = 0
    /\ optimizationQueue = 0

\* getArticleIds calls finished() when the article ids are enumerated
GetArticleIds ==
    /\ task = "getArticleIds"
    /\ articleIdsEnumerated' = TRUE
    /\ articlesLeft' \in 1..MaxArticles
    /\ task' = NextTask(task)
    /\ UNCHANGED <<mobileLayout, redirectsCached, articlesSaved, staticWrites, moduleDownloads,
                   downloadFileQueue, optimizationQueue>>
    /\ UNCHANGED notDumpVars

\* cacheRedirects calls finished() when processAllRedirects has appended every redirect
CacheRedirects ==
    /\ task = "cacheRedirects"
    /\ redirectsCached' = TRUE
    /\ task' = NextTask(task)
    /\ UNCHANGED <<mobileLayout, articleIdsEnumerated, articlesLeft, articlesSaved, staticWrites,
                   moduleDownloads, downloadFileQueue, optimizationQueue>>
    /\ UNCHANGED notDumpVars

\* the tasks that call finished() when their own work is done and leave
\* nothing under way
AwaitedTasks ==
    {"createSubDirectories", "saveStylesheet", "saveFavicon", "getMainPage", "saveHtmlRedirects", "delMediaDB"}

AwaitedTask ==
    /\ task \in AwaitedTasks
    /\ task' = NextTask(task)
    /\ UNCHANGED <<mobileLayout, articleIdsEnumerated, redirectsCached, articlesLeft, articlesSaved,
                   staticWrites, moduleDownloads, downloadFileQueue, optimizationQueue>>
    /\ UNCHANGED notDumpVars

\* saveStaticFiles (only with the mobile layout): for each CSS resource
\* fs.readFile is called with a callback that calls fs.writeFile, and
\* finished() is called right after the forEach
SaveStaticFiles ==
    /\ task = "saveStaticFiles"
    /\ IF mobileLayout
       THEN \E cssResources \in 1..MaxStarted : staticWrites' = staticWrites + cssResources
       ELSE staticWrites' = staticWrites
    /\ task' = NextTask(task)
    /\ UNCHANGED <<mobileLayout, articleIdsEnumerated, redirectsCached, articlesLeft, articlesSaved,
                   moduleDownloads, downloadFileQueue, optimizationQueue>>
    /\ UNCHANGED notDumpVars

\* the callback of one fs.writeFile of saveStaticFiles runs
StaticWriteCompletes ==
    /\ staticWrites > 0
    /\ staticWrites' = staticWrites - 1
    /\ UNCHANGED <<task, mobileLayout, articleIdsEnumerated, redirectsCached, articlesLeft, articlesSaved,
                   moduleDownloads, downloadFileQueue, optimizationQueue>>
    /\ UNCHANGED notDumpVars

\* saveArticle of one article: storeDependencies calls downloadAndSaveModule
\* for each module without waiting for it, treatMedias pushes the media to
\* downloadFileQueue, writeArticle calls finished() from the callback of
\* fs.writeFile
SaveArticle ==
    /\ task = "saveArticles"
    /\ articlesLeft > 0
    /\ \E modules \in 0..MaxStarted : moduleDownloads' = moduleDownloads + modules
    /\ \E medias \in 0..MaxStarted : downloadFileQueue' = downloadFileQueue + medias
    /\ articlesLeft' = articlesLeft - 1
    /\ articlesSaved' = articlesSaved + 1
    /\ UNCHANGED <<task, mobileLayout, articleIdsEnumerated, redirectsCached, staticWrites, optimizationQueue>>
    /\ UNCHANGED notDumpVars

\* the final callback of async.eachLimit over the article ids
SaveArticlesFinished ==
    /\ task = "saveArticles"
    /\ articlesLeft = 0
    /\ task' = NextTask(task)
    /\ UNCHANGED <<mobileLayout, articleIdsEnumerated, redirectsCached, articlesLeft, articlesSaved,
                   staticWrites, moduleDownloads, downloadFileQueue, optimizationQueue>>
    /\ UNCHANGED notDumpVars

\* the load.php answer of one module has arrived and fs.writeFileSync has written it
ModuleDownloadCompletes ==
    /\ moduleDownloads > 0
    /\ moduleDownloads' = moduleDownloads - 1
    /\ UNCHANGED <<task, mobileLayout, articleIdsEnumerated, redirectsCached, articlesLeft, articlesSaved,
                   staticWrites, downloadFileQueue, optimizationQueue>>
    /\ UNCHANGED notDumpVars

\* one task of downloadFileQueue is finished; an image that was downloaded is
\* pushed to optimizationQueue
DownloadFileCompletes ==
    /\ downloadFileQueue > 0
    /\ downloadFileQueue' = downloadFileQueue - 1
    /\ \E optimise \in BOOLEAN : optimizationQueue' = optimizationQueue + (IF optimise THEN 1 ELSE 0)
    /\ UNCHANGED <<task, mobileLayout, articleIdsEnumerated, redirectsCached, articlesLeft, articlesSaved,
                   staticWrites, moduleDownloads>>
    /\ UNCHANGED notDumpVars

\* one task of optimizationQueue is finished
OptimizationCompletes ==
    /\ optimizationQueue > 0
    /\ optimizationQueue' = optimizationQueue - 1
    /\ UNCHANGED <<task, mobileLayout, articleIdsEnumerated, redirectsCached, articlesLeft, articlesSaved,
                   staticWrites, moduleDownloads, downloadFileQueue>>
    /\ UNCHANGED notDumpVars

\* drainDownloadFileQueue calls finished() from the drain of the queue, with
\* length() === 0
DrainDownloadFileQueue ==
    /\ task = "drainDownloadFileQueue"
    /\ downloadFileQueue = 0
    /\ task' = NextTask(task)
    /\ UNCHANGED <<mobileLayout, articleIdsEnumerated, redirectsCached, articlesLeft, articlesSaved,
                   staticWrites, moduleDownloads, downloadFileQueue, optimizationQueue>>
    /\ UNCHANGED notDumpVars

\* drainOptimizationQueue calls finished() from the drain of the queue, with
\* length() === 0
DrainOptimizationQueue ==
    /\ task = "drainOptimizationQueue"
    /\ optimizationQueue = 0
    /\ task' = NextTask(task)
    /\ UNCHANGED <<mobileLayout, articleIdsEnumerated, redirectsCached, articlesLeft, articlesSaved,
                   staticWrites, moduleDownloads, downloadFileQueue, optimizationQueue>>
    /\ UNCHANGED notDumpVars

\* zim.buildZIM runs over the files of the dump's directory
BuildZIM ==
    /\ task = "buildZIM"
    /\ task' = NextTask(task)
    /\ UNCHANGED <<mobileLayout, articleIdsEnumerated, redirectsCached, articlesLeft, articlesSaved,
                   staticWrites, moduleDownloads, downloadFileQueue, optimizationQueue>>
    /\ UNCHANGED notDumpVars

\* ---------------------------------------------------------------- the dump: claims
\* C8 as the specification states it: when buildZIM is the task to run, no
\* static CSS write, module download, queued media download or queued
\* optimisation of the dump is still under way, and an article is saved only
\* after the enumeration and the redirect caching. The code does not keep the
\* first part: saveStaticFiles and downloadAndSaveModule start their writes
\* without waiting for them, and no later task waits for them either.
C8_AsClaimed ==
    /\ task = "buildZIM" =>
          /\ staticWrites = 0
          /\ moduleDownloads = 0
          /\ downloadFileQueue = 0
          /\ optimizationQueue = 0
          /\ articlesLeft = 0
    /\ articlesSaved > 0 => articleIdsEnumerated /\ redirectsCached

\* ---------------------------------------------------------------- getArticleDetailsNS
\* the props whose continuation the loop follows (lines 373-376)
PropKeys == {"coordinates", "categories", "pageimages", "redirects"}

\* the gapcontinue cursor at which the k-th batch of the namespace starts
CursorOf(k) == IF k = 0 THEN "" ELSE "gap" \o ToString(k)
BatchIndex(gapcontinue) == CHOOSE k \in 0..NumBatches : CursorOf(k) = gapcontinue

\* resp['query-continue'] of an answer to a request for the batch at
\* gapcontinue: the props that continue, and the allpages cursor (of the next
\* batch) if the answer carries one
QueryContinues(gapcontinue) ==
    [props : SUBSET PropKeys,
     allpages : {<<>>} \cup (IF BatchIndex(gapcontinue) + 1 < NumBatches
                             THEN {<<CursorOf(BatchIndex(gapcontinue) + 1)>>} ELSE {})]

\* line 387: gCont = resp['query-continue']?.allpages?.gapcontinue ?? gCont
NewGCont(resp, old) == IF resp.allpages # <<>> THEN resp.allpages[1] ELSE old

\* lines 389-391: no key of resp['query-continue'] other than allpages
queryCompleteAlways(resp) == TRUE
queryComplete(resp) == resp.props = {}

\* lines 357-377: gapcontinue is the argument; the prop cursors are those of
\* queryContinuation, if it is set
QueryOpts(gapcontinue, continuation) ==
    [gapcontinue |-> gapcontinue,
     continued |-> IF continuation = <<>> THEN {} ELSE continuation[1].props]

InitNs ==
    /\ nsPc = "idle"
    /\ nsGapcontinue = ""
    /\ queryContinuation = <<>>
    /\ gCont = Null
    /\ nsRequests = <<>>
    /\ nsResponses = <<>>
    /\ nsResult = [gapContinue |-> Null]

IdleNs == InitNs

\* line 352: getArticleDetailsNS(ns, gapcontinue) is called (again)
NSCall(gapcontinue) ==
    /\ nsPc \in {"idle", "returned", "rejected"}
    /\ nsPc' = "loop"
    /\ nsGapcontinue' = gapcontinue
    /\ queryContinuation' = <<>>
    /\ gCont' = Null
    /\ nsRequests' = <<>>
    /\ nsResponses' = <<>>
    /\ nsResult' = [gapContinue |-> Null]
    /\ UNCHANGED notNsVars

\* lines 357-382: the request of one turn of the loop is sent
NSRequest ==
    /\ nsPc = "loop"
    /\ nsRequests' = Append(nsRequests, QueryOpts(nsGapcontinue, queryContinuation))
    /\ nsPc' = "await"
    /\ UNCHANGED <<nsGapcontinue, queryContinuation, gCont, nsResponses, nsResult>>
    /\ UNCHANGED notNsVars

\* lines 382-414: the answer arrives; the loop goes on if a prop continues,
\* else the function returns gCont
NSResponse(resp) ==
    /\ nsPc = "await"
    /\ Len(nsResponses) + 1 < MaxResponses \/ resp.props = {}
    /\ nsResponses' = Append(nsResponses, resp)
    /\ gCont' = NewGCont(resp, gCont)
    /\ IF ~queryComplete(resp)
       THEN /\ queryContinuation' = <<resp>>
            /\ nsPc' = "loop"
            /\ UNCHANGED nsResult
       ELSE /\ nsPc' = "returned"
            /\ nsResult' = [gapContinue |-> gCont']
            /\ UNCHANGED queryContinuation
    /\ UNCHANGED <<nsGapcontinue, nsRequests>>
    /\ UNCHANGED notNsVars

\* line 382: getJSON rejects
NSReject ==
    /\ nsPc = "await"
    /\ nsPc' = "rejected"
    /\ UNCHANGED <<nsGapcontinue, queryContinuation, gCont, nsRequests, nsResponses, nsResult>>
    /\ UNCHANGED notNsVars

\* ---------------------------------------------------------------- getArticleDetailsNS: claims
\* the allpages cursor of the latest of the responses that carried one
LatestCursor(responses) ==
    LET carrying == {i \in 1..Len(responses) : responses[i].allpages # <<>>}
    IN IF carrying = {} THEN Null
       ELSE responses[CHOOSE i \in carrying : \A j \in carrying : j <= i].allpages[1]

\* C11: when getArticleDetailsNS has returned, its last response carried no
\* prop continuation and every earlier one did; every request of the call
\* carried the caller's gapcontinue; the returned gapContinue is the allpages
\* cursor of the latest response that carried one, null if none did; and a
\* returned cursor is the one of the batch after the caller's.
C11_NSReturnsWhenDrained ==
    nsPc = "returned" =>
        /\ nsResponses # <<>>
        /\ nsResponses[Len(nsResponses)].props = {}
        /\ \A i \in 1..Len(nsResponses) - 1 : nsResponses[i].props # {}
        /\ Len(nsRequests) = Len(nsResponses)
        /\ \A i \in 1..Len(nsRequests) : nsRequests[i].gapcontinue = nsGapcontinue
        /\ nsResult.gapContinue = LatestCursor(nsResponses)
        /\ nsResult.gapContinue # Null =>
              nsResult.gapContinue = CursorOf(BatchIndex(nsGapcontinue) + 1)

\* a call has returned after a prop continuation; the cursor it returns came
\* with the first response only
C11_Witness ==
    /\ nsPc = "returned"
    /\ Len(nsResponses) > 1
    /\ nsResponses[1].allpages # <<>>
    /\ nsResponses[Len(nsResponses)].allpages = <<>>
    /\ nsResult.gapContinue = CursorOf(1)

\* ---------------------------------------------------------------- downloadImage
ImageUrls == {"a.png", "b.png"}
\* entity tags; "" is no etag
Etags == {"abc", "def"}

\* what s3.downloadBlob resolves with: <<>> when the cache has no object for
\* the key, else <<the object>> with its Body and its Metadata
CachedObjects(url) ==
    {<<>>} \cup {<<[Body |-> "cached " \o url, Metadata |-> [etag |-> etag]]>> : etag \in Etags \cup {""}}

\* (({ Body, ...o }) => o)(imageResp)
WithoutBody(object) == [Metadata |-> object.Metadata]

NoOutcome == [kind |-> "none"]

\* handler(null, { responseHeaders, content })
HandlerValue(responseHeaders, content, optimised) ==
    [kind |-> "value", responseHeaders |-> responseHeaders, content |-> content, optimised |-> optimised]

\* handler(err)
HandlerError(err) == [kind |-> "error", err |-> err]

InitImage ==
    /\ ifNoneMatch = <<>>
    /\ blobCache \in {f \in [ImageUrls -> UNION {CachedObjects(url) : url \in ImageUrls}] :
                         \A url \in ImageUrls : f[url] \in CachedObjects(url)}
    /\ upstreamEtag \in [ImageUrls -> Etags \cup {""}]
    /\ imPc = "idle"
    /\ imUrl = ""
    /\ imageResp = <<>>
    /\ imAnswer = "none"
    /\ imOutcome = NoOutcome
    /\ imUploaded = FALSE

IdleImage ==
    /\ ifNoneMatch = <<>>
    /\ blobCache = <<>>
    /\ upstreamEtag = <<>>
    /\ imPc = "idle"
    /\ imUrl = ""
    /\ imageResp = <<>>
    /\ imAnswer = "none"
    /\ imOutcome = NoOutcome
    /\ imUploaded = FALSE

\* lines 591-592, 611: downloadImage(url, handler) calls s3.downloadBlob
DownloadImage(url) ==
    /\ imPc \in {"idle", "done"}
    /\ imPc' = "s3"
    /\ imUrl' = url
    /\ imageResp' = <<>>
    /\ imAnswer' = "none"
    /\ imOutcome' = NoOutcome
    /\ imUploaded' = FALSE
    /\ UNCHANGED <<ifNoneMatch, blobCache, upstreamEtag>>
    /\ UNCHANGED notImageVars

\* lines 611-615: the blob cache answers; with an etag in the object's
\* metadata the If-None-Match header of the shared request options is set;
\* the upstream GET is sent with these options
DownloadBlobResolves ==
    /\ imPc = "s3"
    /\ imageResp' = blobCache[imUrl]
    /\ ifNoneMatch' = IF imageResp' # <<>> /\ imageResp'[1].Metadata.etag # ""
                      THEN <<imageResp'[1].Metadata.etag>>
                      ELSE ifNoneMatch
    /\ imPc' = "get"
    /\ UNCHANGED <<blobCache, upstreamEtag, imUrl, imAnswer, imOutcome, imUploaded>>
    /\ UNCHANGED notImageVars

\* lines 636-638: s3.downloadBlob rejects: errHandler(err, url, handler)
DownloadBlobRejects ==
    /\ imPc = "s3"
    /\ imOutcome' = HandlerError("S3")
    /\ imPc' = "done"
    /\ UNCHANGED <<ifNoneMatch, blobCache, upstreamEtag, imUrl, imageResp, imAnswer, imUploaded>>
    /\ UNCHANGED notImageVars

\* the upstream's answers to the GET: 304 when the request's If-None-Match is
\* the current etag of the resource, otherwise 200 or an error status
UpstreamAnswers(url, header) ==
    IF header # <<>> /\ header[1] = upstreamEtag[url] THEN {"304"} ELSE {"200", "500"}

\* lines 615-638: the upstream answers the GET
ImageAnswer(status) ==
    /\ imPc = "get"
    /\ status \in UpstreamAnswers(imUrl, ifNoneMatch)
    /\ imAnswer' = status
    /\ imPc' = "done"
    /\ IF status = "304"
       THEN \* lines 618-623; reading Body of an undefined imageResp throws,
            \* and the catch of line 636 hands the TypeError to errHandler
            /\ imOutcome' = IF imageResp = <<>>
                            THEN HandlerError("TypeError")
                            ELSE HandlerValue(WithoutBody(imageResp[1]), imageResp[1].Body, FALSE)
            /\ UNCHANGED <<blobCache, imUploaded>>
       ELSE IF status = "200"
       THEN \* lines 627-635: upload under the upstream's etag, if it has
            \* one, and hand over the body after getCompressedBody
            /\ IF upstreamEtag[imUrl] # ""
               THEN /\ blobCache' = [blobCache EXCEPT ![imUrl] =
                                        <<[Body |-> "cached " \o imUrl, Metadata |-> [etag |-> upstreamEtag[imUrl]]]>>]
                    /\ imUploaded' = TRUE
               ELSE UNCHANGED <<blobCache, imUploaded>>
            /\ imOutcome' = HandlerValue([etag |-> upstreamEtag[imUrl]], "upstream " \o imUrl, TRUE)
       ELSE \* validateStatus fails: axios rejects, errHandler(err, url, handler)
            /\ imOutcome' = HandlerError(status)
            /\ UNCHANGED <<blobCache, imUploaded>>
    /\ UNCHANGED <<ifNoneMatch, upstreamEtag, imUrl, imageResp>>
    /\ UNCHANGED notImageVars

\* ---------------------------------------------------------------- downloadImage: claims
\* C12 as the specification states it: when the upstream has answered the GET
\* for an image with 304, the handler has received the blob-cache object's
\* body as content and its stored metadata as response headers, not
\* optimised, and nothing was uploaded. The code does not keep this: the
\* If-None-Match header stays in the shared request options, so the GET for
\* an image the cache does not hold carries the etag of an earlier image, and
\* a 304 to it ends in a TypeError.
C12_AsClaimed ==
    (imPc = "done" /\ imAnswer = "304") =>
        /\ imOutcome.kind = "value"
        /\ blobCache[imUrl] # <<>>
        /\ imOutcome.content = blobCache[imUrl][1].Body
        /\ imOutcome.responseHeaders = WithoutBody(blobCache[imUrl][1])
        /\ ~imOutcome.optimised
        /\ ~imUploaded

\* C27: the upstream GET issued for a URL carries an If-None-Match header only
\* if the blob cache holds an object keyed by that URL with an etag, and the
\* header's value is that etag; a GET for an image with no cached object
\* carries none. The code does not keep this: the header written for one
\* image stays in the request options every later GET is sent with.
C27_AsClaimed ==
    (imPc = "get" /\ ifNoneMatch # <<>>) =>
        /\ blobCache[imUrl] # <<>>
        /\ blobCache[imUrl][1].Metadata.etag # ""
        /\ ifNoneMatch[1] = blobCache[imUrl][1].Metadata.etag

\* ---------------------------------------------------------------- execute: the run as a whole
\* the tasks of the outer async.series, up to the one that runs the dumps
OuterSeries ==
    <<"login", "getTextDirection", "getSiteInfo", "getSubTitle", "getNamespaces",
      "createDirectories", "prepareCache", "checkResume", "getArticleIds", "cacheRedirects">>

\* the tasks of the async.series of one dump
DumpSeries ==
    <<"createSubDirectories", "saveStaticFiles", "saveStylesheet", "saveFavicon", "getMainPage",
      "saveHtmlRedirects", "saveArticles", "drainDownloadFileQueue", "drainOptimizationQueue",
      "buildZIM", "delMediaDB">>

\* the series the run is in
SeriesOf(pc) == IF pc = "outer" THEN OuterSeries ELSE DumpSeries

\* the tasks that hand the error of their last step to their callback:
\* getMainPage passes finished to fs.writeFile
ReportsToCallback == {"getMainPage"}

\* the tasks that call Utils.exitIfError with an error of theirs
ExitsIfError ==
    {"login", "getArticleIds", "saveStylesheet", "saveArticles", "drainDownloadFileQueue",
     "drainOptimizationQueue"}

\* the tasks that throw in a callback of theirs: saveFavicon when the site has no logo
Throws == {"saveFavicon"}

\* Utils.exitIfError: the exit code of a fatal error
exitIfError == 1

\* the handler of uncaughtException
uncaughtException == 42

\* the tasks the options turn into a bare finishedTask()
Skipped(opts) ==
    (IF opts.mobileLayout THEN {} ELSE {"saveStaticFiles"})
        \cup (IF opts.writeHtmlRedirects THEN {} ELSE {"saveHtmlRedirects"})

InitRun ==
    /\ runPc = "outer"
    /\ runTask = 1
    /\ dumpsLeft \in 1..MaxDumps
    /\ runOpts \in [mobileLayout : BOOLEAN, writeHtmlRedirects : BOOLEAN]
    /\ reported = {}
    /\ exitCode = <<>>
    /\ successLine = FALSE

IdleRun ==
    /\ runPc = "idle"
    /\ runTask = 1
    /\ dumpsLeft = 0
    /\ runOpts = [mobileLayout |-> FALSE, writeHtmlRedirects |-> FALSE]
    /\ reported = {}
    /\ exitCode = <<>>
    /\ successLine = FALSE

\* the name of the task in progress
RunningTask == SeriesOf(runPc)[runTask]

\* the callback of async.eachSeries over env.dumps takes no argument: whatever
\* the dumps reported, the cache cleaning starts
DumpsCallback == "cleaning"

\* the task in progress calls finished() without an error
TaskFinished ==
    /\ runPc \in {"outer", "dump"}
    /\ IF runTask < Len(SeriesOf(runPc))
         THEN /\ runTask' = runTask + 1
              /\ UNCHANGED <<runPc, dumpsLeft>>
         ELSE IF runPc = "outer"
         THEN \* the last task of the outer series runs the dumps one after the other
              /\ runPc' = "dump"
              /\ runTask' = 1
              /\ UNCHANGED dumpsLeft
         ELSE \* finishedDump(): the next dump, or the callback of eachSeries
              /\ dumpsLeft' = dumpsLeft - 1
              /\ runTask' = 1
              /\ runPc' = IF dumpsLeft > 1 THEN "dump" ELSE DumpsCallback
    /\ UNCHANGED <<runOpts, reported, exitCode, successLine>>
    /\ UNCHANGED notRunVars

\* the task in progress calls finished(error): async.series skips the tasks
\* left and calls its callback, which is finishedDump(error) in a dump;
\* async.eachSeries then starts no further dump and calls its callback
TaskReportsError ==
    /\ runPc \in {"outer", "dump"}
    /\ RunningTask \in ReportsToCallback \ Skipped(runOpts)
    /\ reported' = reported \cup {RunningTask}
    /\ runPc' = IF runPc = "outer" THEN "closing" ELSE DumpsCallback'
    /\ UNCHANGED <<runTask, dumpsLeft, runOpts, exitCode, successLine>>
    /\ UNCHANGED notRunVars

\* the task in progress calls Utils.exitIfError with an error
TaskExitsIfError ==
    /\ runPc \in {"outer", "dump"}
    /\ RunningTask \in ExitsIfError
    /\ reported' = reported \cup {RunningTask}
    /\ exitCode' = <<exitIfError>>
    /\ runPc' = "exited"
    /\ UNCHANGED <<runTask, dumpsLeft, runOpts, successLine>>
    /\ UNCHANGED notRunVars

\* a callback of the task in progress throws: process.on('uncaughtException')
TaskThrows ==
    /\ runPc \in {"outer", "dump"}
    /\ RunningTask \in Throws
    /\ reported' = reported \cup {RunningTask}
    /\ exitCode' = <<uncaughtException>>
    /\ runPc' = "exited"
    /\ UNCHANGED <<runTask, dumpsLeft, runOpts, successLine>>
    /\ UNCHANGED notRunVars

\* the cache cleaning command ends: finished(error) of the outer series,
\* whose callback starts flushDBs whatever the error
CacheCleaned(error) ==
    /\ runPc = "cleaning"
    /\ reported' = IF error THEN reported \cup {"cleanCache"} ELSE reported
    /\ runPc' = "closing"
    /\ UNCHANGED <<runTask, dumpsLeft, runOpts, exitCode, successLine>>
    /\ UNCHANGED notRunVars

\* flushDBs, quit and closeAgents are over: the last callback logs the
\* success line and exits
Closed ==
    /\ runPc = "closing"
    /\ successLine' = TRUE
    /\ exitCode' = <<0>>
    /\ runPc' = "exited"
    /\ UNCHANGED <<runTask, dumpsLeft, runOpts, reported>>
    /\ UNCHANGED notRunVars

\* C13: the success line is logged and the exit code is 0 only if no phase
\* and no dump reported an error; when one did, the process ends with exit
\* code 1 or 42 and without the success line. The code does not keep this:
\* the callbacks of async.eachSeries and of the outer async.series ignore
\* their error.
C13_AsClaimed ==
    /\ successLine => reported = {}
    /\ exitCode = <<0>> => reported = {}
    /\ (exitCode # <<>> /\ reported # {}) =>
           (exitCode[1] \in {exitIfError, uncaughtException} /\ ~successLine)

\* ---------------------------------------------------------------- checkCapabilities
\* what a probe can bring: a body with the field the code looks for, a body
\* without it, or a rejection of getJSON
ProbeOutcomes == {"available", "empty", "rejects"}

\* the await checkCapabilities reaches when both probes are over
AfterProbes(opts, caps) ==
    IF ~opts.noLocalParserFallback /\ (~caps.restApiAvailable \/ ~caps.veApiAvailable)
    THEN "initLocalServices"
    ELSE "coordinates"

InitCap ==
    /\ capPc = "rest"
    /\ capOpts \in [noLocalParserFallback : BOOLEAN, forceLocalParser : BOOLEAN]
    /\ mwCapabilities = [veApiAvailable |-> TRUE, restApiAvailable |-> TRUE,
                         coordinatesAvailable |-> TRUE]
    /\ baseUrl = "remote"
    /\ baseUrlForMainPage = "remote"
    /\ localServices = FALSE
    /\ probeFailed = {}
    /\ capFetched = {}

IdleCap ==
    /\ capPc = "idle"
    /\ capOpts = [noLocalParserFallback |-> FALSE, forceLocalParser |-> FALSE]
    /\ mwCapabilities = [veApiAvailable |-> TRUE, restApiAvailable |-> TRUE,
                         coordinatesAvailable |-> TRUE]
    /\ baseUrl = "remote"
    /\ baseUrlForMainPage = "remote"
    /\ localServices = FALSE
    /\ probeFailed = {}
    /\ capFetched = {}

\* the answer to the mobile-sections probe: restApiAvailable is
\* !!restApiMainPageQuery.lead, or false when getJSON rejects
RestProbe(outcome) ==
    /\ capPc = "rest"
    /\ mwCapabilities' = [mwCapabilities EXCEPT !.restApiAvailable = (outcome = "available")]
    /\ probeFailed' = IF outcome = "available" THEN probeFailed ELSE probeFailed \cup {"rest"}
    /\ capPc' = IF ~capOpts.forceLocalParser THEN "ve" ELSE AfterProbes(capOpts, mwCapabilities')
    /\ UNCHANGED <<capOpts, baseUrl, baseUrlForMainPage, localServices, capFetched>>
    /\ UNCHANGED notCapVars

\* the answer to the visual-editor probe: veApiAvailable is
\* !!parsoidMainPageQuery.visualeditor.content, or false when getJSON rejects
\* or the body has no visualeditor
VeProbe(outcome) ==
    /\ capPc = "ve"
    /\ mwCapabilities' = [mwCapabilities EXCEPT !.veApiAvailable = (outcome = "available")]
    /\ probeFailed' = IF outcome = "available" THEN probeFailed ELSE probeFailed \cup {"ve"}
    /\ capPc' = AfterProbes(capOpts, mwCapabilities')
    /\ UNCHANGED <<capOpts, baseUrl, baseUrlForMainPage, localServices, capFetched>>
    /\ UNCHANGED notCapVars

\* initLocalServices resolves: the base URLs of what is not available remotely
\* point to the local services
LocalServicesStarted ==
    /\ capPc = "initLocalServices"
    /\ localServices' = TRUE
    /\ baseUrl' = IF ~mwCapabilities.restApiAvailable THEN "localhost:6927" ELSE baseUrl
    /\ baseUrlForMainPage' =
           IF ~mwCapabilities.veApiAvailable THEN "localhost:8000" ELSE baseUrlForMainPage
    /\ capPc' = "coordinates"
    /\ UNCHANGED <<capOpts, mwCapabilities, probeFailed, capFetched>>
    /\ UNCHANGED notCapVars

\* initLocalServices rejects, and checkCapabilities with it
LocalServicesFail ==
    /\ capPc = "initLocalServices"
    /\ capPc' = "rejected"
    /\ UNCHANGED <<capOpts, mwCapabilities, baseUrl, baseUrlForMainPage, localServices,
                   probeFailed, capFetched>>
    /\ UNCHANGED notCapVars

\* the answer to the coordinates query, which is not in a try block
CoordinatesAnswer(outcome) ==
    /\ capPc = "coordinates"
    /\ mwCapabilities' =
           IF outcome = "warning"
           THEN [mwCapabilities EXCEPT !.coordinatesAvailable = FALSE]
           ELSE mwCapabilities
    /\ capPc' = IF outcome = "rejects" THEN "rejected" ELSE "done"
    /\ cqProbe' = IF outcome = "rejects" THEN cqProbe ELSE <<outcome>>
    /\ UNCHANGED <<capOpts, baseUrl, baseUrlForMainPage, localServices, probeFailed, capFetched>>
    /\ UNCHANGED <<cqGetCategories, cqRequests, cqPending, cqWarned>>
    /\ UNCHANGED notCapQueryVars

\* the articles the caller asks for once checkCapabilities is over
CapArticles == {"Main_Page", "London"}

\* getArticleUrl: the base URL of the request, and the article asked for
getArticleUrl(articleId, isMainPage) ==
    <<IF isMainPage THEN baseUrlForMainPage ELSE baseUrl, articleId>>

\* the caller, having awaited checkCapabilities, fetches an article
CapGetArticle(articleId) ==
    /\ capPc = "done"
    /\ \A u \in capFetched : u[2] # articleId
    /\ capFetched' = capFetched \cup {getArticleUrl(articleId, articleId = "Main_Page")}
    /\ UNCHANGED <<capPc, capOpts, mwCapabilities, baseUrl, baseUrlForMainPage, localServices,
                   probeFailed>>
    /\ UNCHANGED notCapVars

\* C14: with noLocalParserFallback set and both the mobile-sections probe
\* and the visual-editor probe failed, checkCapabilities does not complete
\* normally and no article is fetched afterwards. The code does not keep
\* this: it logs 'Using remote MCS/Parsoid' and goes on.
C14_AsClaimed ==
    (capOpts.noLocalParserFallback /\ probeFailed = {"rest", "ve"}) =>
        (capPc # "done" /\ capFetched = {})

\* s.includes(sub)
includes(s, sub) == \E i \in 1..(Len(s) - Len(sub) + 1) : SubSeq(s, i, i + Len(sub) - 1) = sub

InitQuery ==
    /\ cqProbe = <<>>
    /\ cqGetCategories \in BOOLEAN
    /\ cqRequests = <<>>
    /\ cqPending = FALSE
    /\ cqWarned = FALSE

IdleQuery ==
    /\ cqProbe = <<>>
    /\ cqGetCategories = FALSE
    /\ cqRequests = <<>>
    /\ cqPending = FALSE
    /\ cqWarned = FALSE

\* the prop with '|coordinates' whatever the capability
getArticleQueryOptsAlways(includePageimages, coordinatesAvailable, getCategories) ==
    [prop |-> "redirects|revisions" \o (IF includePageimages THEN "|pageimages" ELSE "")
                  \o "|coordinates" \o (IF getCategories THEN "|categories" ELSE ""),
     rdlimit |-> "max"]

\* part_002 522-531
getArticleQueryOpts(includePageimages, coordinatesAvailable, getCategories) ==
    [prop |-> "redirects|revisions" \o (IF includePageimages THEN "|pageimages" ELSE "")
                  \o (IF coordinatesAvailable THEN "|coordinates" ELSE "")
                  \o (IF getCategories THEN "|categories" ELSE ""),
     rdlimit |-> "max"]

\* part_002 318-322 (getArticleDetailsIds), 357-360 (getArticleDetailsNS):
\* the options of the query, colimit only with the capability
ArticleDetailsQuery(includePageimages) ==
    /\ capPc = "done"
    /\ ~cqPending
    /\ Len(cqRequests) < MaxQueries
    /\ cqRequests' = Append(cqRequests,
           [opts |-> getArticleQueryOpts(includePageimages, mwCapabilities.coordinatesAvailable, cqGetCategories),
            colimit |-> IF mwCapabilities.coordinatesAvailable THEN <<"max">> ELSE <<>>])
    /\ cqPending' = TRUE
    /\ UNCHANGED <<cqProbe, cqGetCategories, cqWarned>>
    /\ UNCHANGED notQueryVars

\* whether a query asks for coordinates
AsksCoordinates(request) == includes(request.opts.prop, "coordinates") \/ request.colimit # <<>>

\* part_002 329-331, 516-520: the response of the query; handleMWWarningsAndErrors
\* logs its warnings. A wiki warns about coordinates only when asked for them.
ArticleDetailsAnswer(warning) ==
    /\ cqPending
    /\ warning => AsksCoordinates(cqRequests[Len(cqRequests)])
    /\ cqPending' = FALSE
    /\ cqWarned' = (cqWarned \/ warning)
    /\ UNCHANGED <<cqProbe, cqGetCategories, cqRequests>>
    /\ UNCHANGED notQueryVars

\* C34 as the specification states it: whenever an API response carries a
\* warnings.query entry mentioning 'coordinates', coordinatesAvailable becomes
\* false. Only the response to the probe of checkCapabilities is examined;
\* the warnings of an article-details response are logged.
C34_AsClaimed ==
    (cqProbe = <<"warning">> \/ cqWarned) => ~mwCapabilities.coordinatesAvailable

\* C34 (amended): whenever the response to the coordinates probe of
\* checkCapabilities carries a warnings.query entry mentioning 'coordinates',
\* coordinatesAvailable becomes false; once false it stays false for the rest
\* of the run, and no later article-details query includes the coordinates
\* prop or colimit.
C34_ProbeWarningTurnsOff ==
    /\ [](cqProbe = <<"warning">> => ~mwCapabilities.coordinatesAvailable)
    /\ [][~mwCapabilities.coordinatesAvailable => ~mwCapabilities'.coordinatesAvailable]_vars
    /\ [][(cqRequests' # cqRequests /\ ~mwCapabilities.coordinatesAvailable) =>
             ~AsksCoordinates(cqRequests'[Len(cqRequests')])]_vars

\* the probe was answered with the warning and two queries went out since,
\* neither asking for coordinates
C34_Witness ==
    /\ cqProbe = <<"warning">>
    /\ Len(cqRequests) = 2
    /\ \A i \in DOMAIN cqRequests : ~AsksCoordinates(cqRequests[i])

\* ---------------------------------------------------------------- treatImage / processArticleHtml
\* the characters of a file name as the document writes it
DocChars == {"g", "%", "2", "5", "F"}

\* the src attributes of the parsed document: what precedes the file name, the
\* file name as written, and the width of a thumbnail
UploadHost == "//upload.wikimedia.org/"
SpecialFilePath == "./Special:FilePath/"
DocSrcs ==
    [origin : {UploadHost, SpecialFilePath}, file : Strings(DocChars, MaxLen) \ {""},
     px : OptionalSizes, x : {<<>>}]

\* the articles the document belongs to
MediaArticleIds == {"London", "A/B"}

webUrlHost == "en.wikipedia.org"

\* a relative reference without its leading '../' segments
RECURSIVE StripUp(_)
StripUp(s) == IF StartsWith(s, "../") THEN StripUp(Substr(s, 4)) ELSE s

\* getFullUrl: a reference that names its host keeps it, a path is put under
\* the host of the wiki, a relative reference is resolved against its root
getFullUrl(host, src) ==
    IF src.origin = UploadHost \/ StartsWith(src.file, "//")
    THEN [file |-> src.file, px |-> src.px, x |-> src.x]
    ELSE IF StartsWith(src.file, "/")
    THEN [file |-> "//" \o host \o src.file, px |-> <<>>, x |-> <<>>]
    ELSE [file |-> "//" \o host \o "/" \o StripUp(src.origin) \o src.file, px |-> <<>>, x |-> <<>>]

\* '../'.repeat(slashesInUrl + 1)
upStr(articleId) == Repeat("../", CountFrom(articleId, "/", 1) + 1)

\* the src attribute as text
SrcText(src) == src.origin \o src.file

\* treatImage on the img element (dump.nopic off): the element afterwards and
\* the media dependencies
treatImage(articleId, img) ==
    IF img = <<>> THEN [img |-> <<>>, mediaDependencies |-> <<>>]
    ELSE LET src == getFullUrl(webUrlHost, img[1])
         IN IF img[1].origin = SpecialFilePath \/ decodeURI(src.file) = <<>>
            THEN \* DU.deleteNode(img): the src is skipped, or getMediaBase threw
                 [img |-> <<>>, mediaDependencies |-> <<>>]
            ELSE [img |-> <<[origin |-> upStr(articleId) \o "I" \o "/",
                             file |-> getMediaBase(src, TRUE), px |-> <<>>, x |-> <<>>]>>,
                  mediaDependencies |-> <<src>>]

\* processArticleHtml: { url, path } of every media dependency
WithPath(mediaDependencies) ==
    [i \in 1..Len(mediaDependencies) |->
        [url |-> mediaDependencies[i], path |-> getMediaBase(mediaDependencies[i], FALSE)]]

InitMedia ==
    /\ mePc = 0
    /\ meArticleId \in MediaArticleIds
    /\ meImg \in {<<src>> : src \in DocSrcs}
    /\ mePasses = <<>>

IdleMedia ==
    /\ mePc = 0
    /\ meArticleId = ""
    /\ meImg = <<>>
    /\ mePasses = <<>>

\* processArticleHtml is applied to the document, or to its own output
ProcessMedia ==
    /\ meArticleId # ""
    /\ mePc < MaxPasses
    /\ LET tmRet == treatImage(meArticleId, meImg)
       IN /\ meImg' = tmRet.img
          /\ mePasses' = Append(mePasses, [img |-> tmRet.img,
                                           mediaDependencies |-> WithPath(tmRet.mediaDependencies)])
    /\ mePc' = mePc + 1
    /\ UNCHANGED meArticleId
    /\ UNCHANGED notMediaVars

\* the passes that enqueued a media dependency
Enqueuing == {i \in 1..mePc : mePasses[i].mediaDependencies # <<>>}

Pathname(href) ==
    LET hash == IndexFrom(href, "#", 1)
    IN IF hash = 0 THEN href ELSE SubSeq(href, 1, hash - 1)

webUrlPath == "/wiki/"

\* mw.extractPageTitleFromHref: the title, or null
extractPageTitleFromHref(href) ==
    LET pathname == Pathname(href)
    IN IF StartsWith(pathname, "./") THEN decodeURIComponent(Substr(pathname, 3))[1]
       ELSE IF StartsWith(pathname, webUrlPath)
       THEN decodeURIComponent(Substr(pathname, Len(webUrlPath) + 1))[1]
       ELSE Null

\* the ids of the articles of the dump, its redirects, and the namespaces of the wiki
LinkArticleIds == {"London"}
LinkRedirects == [LDN |-> "London"]
LinkNamespaces == [Portal |-> [isContent |-> TRUE], Talk |-> [isContent |-> FALSE]]

\* the titles links point to
LinkTitles == {"London", "LDN", "Nowhere", "Portal:P", "Talk:T", ""}

\* isMirrored (no article list given): a title of a known namespace is
\* mirrored when the namespace holds content, any other when it is an article
\* of the dump
isMirrored(id) ==
    LET colon == IndexFrom(id, ":", 1)
    IN IF id # "" /\ colon > 0 /\ SubSeq(id, 1, colon - 1) \in DOMAIN LinkNamespaces
       THEN LinkNamespaces[SubSeq(id, 1, colon - 1)].isContent
       ELSE id \in LinkArticleIds

\* redis.processRedirectIfExists: whether the title is a redirect
processRedirectIfExists(title) == title \in DOMAIN LinkRedirects

\* env.getArticleUrl: the archive-local path of a title
env_getArticleUrl(title) == encodeURIComponent(title) \o ".html"

\* localAnchor as it would be if the anchor were dropped
localAnchorDropped(href) == ""

\* href.lastIndexOf('#') === -1 ? '' : href.substr(href.lastIndexOf('#'))
localAnchor(href) ==
    LET hash == LastIndexFrom(href, "#", Len(href))
    IN IF hash = 0 THEN "" ELSE Substr(href, hash)

\* the nodes of the document: text nodes and the link
TextNode(text) == [tag |-> "#text", text |-> text, rel |-> "", href |-> "", childNodes |-> <<>>]
LinkNode(rel, href, childNodes) ==
    [tag |-> "A", text |-> "", rel |-> rel, href |-> href, childNodes |-> childNodes]

\* the hrefs of the links of the document
LinkAnchors == {"", "#History"}
LinkHrefs ==
    {"./" \o title \o anchor : title \in LinkTitles, anchor \in LinkAnchors}
        \cup {webUrlPath \o "London", "//fr.wikipedia.org/wiki/Paris", "#top", ""}

\* the rel attributes of the links of the document ("" when there is none)
LinkRels == {"mw:WikiLink", "mw:referencedBy", "mw:ExtLink", ""}

\* the first n child nodes of the link
ChildTexts(n) == [i \in 1..n |-> TextNode("t" \o ToString(i))]

\* Utils.migrateChildren(linkNode, linkNode.parentNode, linkNode) and
\* removeChild(linkNode): the children take the place of the link
Unwrapped(nodes, at) ==
    SubSeq(nodes, 1, at - 1) \o nodes[at].childNodes \o SubSeq(nodes, at + 1, Len(nodes))

\* DU.deleteNode(linkNode)
Deleted(nodes, at) == SubSeq(nodes, 1, at - 1) \o SubSeq(nodes, at + 1, Len(nodes))

\* linkNode.setAttribute('href', href)
WithHref(nodes, at, href) == [nodes EXCEPT ![at].href = href]

InitLink ==
    /\ lkPc = "parsed"
    /\ \E rel \in LinkRels, href \in LinkHrefs, n \in 0..MaxChildren, before \in BOOLEAN :
           /\ lkNodes = (IF before THEN <<TextNode("x")>> ELSE <<>>)
                            \o <<LinkNode(rel, href, ChildTexts(n))>> \o <<TextNode("y")>>
           /\ lkAt = IF before THEN 2 ELSE 1
           /\ lkLink = LinkNode(rel, href, ChildTexts(n))
    /\ lkMedia = <<>>

IdleLink ==
    /\ lkPc = "idle"
    /\ lkNodes = <<>>
    /\ lkAt = 0
    /\ lkLink = LinkNode("", "", <<>>)
    /\ lkMedia = <<>>

\* the link node while it is in the document
TheLink == lkNodes[lkAt]

\* the href rewriteUrl reads
lkHref == lkLink.href

\* whether rewriteUrl hands the link to removeLinksToUnmirroredArticles
IsWikiLink(rel) == rel \in {"mw:WikiLink", "mw:referencedBy", ""}

\* rewriteUrl for a link that is not decided by the article or redirect lists
RewriteOther ==
    /\ lkPc = "parsed"
    /\ \/ lkHref = ""
       \/ StartsWith(lkHref, "#")
       \/ ~IsWikiLink(TheLink.rel)
       \/ extractPageTitleFromHref(lkHref) \in {Null, ""}
    /\ lkNodes' =
           IF lkHref = "" THEN Deleted(lkNodes, lkAt)
           ELSE IF StartsWith(lkHref, "#") \/ IsWikiLink(TheLink.rel) THEN lkNodes
           ELSE IF StartsWith(lkHref, "/")
           THEN WithHref(lkNodes, lkAt, getFullUrl(webUrlHost, [origin |-> "", file |-> lkHref, px |-> <<>>, x |-> <<>>]).file)
           ELSE IF StartsWith(lkHref, "./") THEN Unwrapped(lkNodes, lkAt)
           ELSE lkNodes
    /\ lkPc' = "finished"
    /\ UNCHANGED <<lkAt, lkLink, lkMedia>>
    /\ UNCHANGED notLinkVars

\* removeLinksToUnmirroredArticles for a mirrored title
RewriteMirrored ==
    /\ lkPc = "parsed"
    /\ lkHref # "" /\ ~StartsWith(lkHref, "#") /\ IsWikiLink(TheLink.rel)
    /\ LET title == extractPageTitleFromHref(lkHref)
       IN /\ title \notin {Null, ""}
          /\ isMirrored(title)
          /\ lkNodes' = WithHref(lkNodes, lkAt, env_getArticleUrl(title) \o localAnchor(lkHref))
    /\ lkPc' = "finished"
    /\ UNCHANGED <<lkAt, lkLink, lkMedia>>
    /\ UNCHANGED notLinkVars

\* removeLinksToUnmirroredArticles for any other title: the redirect is looked up
LookUpRedirect ==
    /\ lkPc = "parsed"
    /\ lkHref # "" /\ ~StartsWith(lkHref, "#") /\ IsWikiLink(TheLink.rel)
    /\ LET title == extractPageTitleFromHref(lkHref)
       IN title \notin {Null, ""} /\ ~isMirrored(title)
    /\ lkPc' = "processRedirectIfExists"
    /\ UNCHANGED <<lkNodes, lkAt, lkLink, lkMedia>>
    /\ UNCHANGED notLinkVars

\* the callback of redis.processRedirectIfExists
RedirectAnswer ==
    /\ lkPc = "processRedirectIfExists"
    /\ LET title == extractPageTitleFromHref(lkHref)
       IN lkNodes' = IF processRedirectIfExists(title)
                     THEN WithHref(lkNodes, lkAt, env_getArticleUrl(title))
                     ELSE Unwrapped(lkNodes, lkAt)
    /\ lkPc' = "finished"
    /\ UNCHANGED <<lkAt, lkLink, lkMedia>>
    /\ UNCHANGED notLinkVars

\* rewriteUrl has finished with a wiki link whose href gives a title
LinkHadTitle ==
    /\ lkPc = "finished"
    /\ IsWikiLink(lkLink.rel)
    /\ lkHref # "" /\ ~StartsWith(lkHref, "#")
    /\ extractPageTitleFromHref(lkHref) \notin {Null, ""}

\* the fragment of the href, "#" included
Fragment(href) == Substr(href, Len(Pathname(href)) + 1)

\* the link is in its place with the given href, its children as they were
LinkHasHref(href) ==
    /\ Len(lkNodes) = lkAt + 1
    /\ TheLink = [lkLink EXCEPT !.href = href]

\* the link is gone and its children are in its place, in their order
LinkIsUnwrapped ==
    lkNodes = (IF lkAt = 2 THEN <<TextNode("x")>> ELSE <<>>)
                  \o lkLink.childNodes \o <<TextNode("y")>>

\* C17 as the specification has it: a wiki link to a mirrored title gets the
\* archive-local path of the title and keeps its anchor, a link to a redirect
\* gets the archive-local path of the redirect's target, any other link is
\* unwrapped with its children in place; no media is enqueued
C17_AsClaimed ==
    LinkHadTitle =>
        LET title == extractPageTitleFromHref(lkHref)
        IN /\ IF isMirrored(title) THEN LinkHasHref(env_getArticleUrl(title) \o Fragment(lkHref))
              ELSE IF title \in DOMAIN LinkRedirects
              THEN LinkHasHref(env_getArticleUrl(LinkRedirects[title]))
              ELSE LinkIsUnwrapped
           /\ lkMedia = <<>>

\* C17: a wiki link to a mirrored title gets the archive-local path of the
\* title and keeps its anchor, a link to a redirect gets the archive-local
\* path of the redirect itself, without the anchor, any other link is
\* unwrapped with its children in place; no media is enqueued
C17_RedirectKeepsItsPath ==
    LinkHadTitle =>
        LET title == extractPageTitleFromHref(lkHref)
        IN /\ IF isMirrored(title) THEN LinkHasHref(env_getArticleUrl(title) \o Fragment(lkHref))
              ELSE IF title \in DOMAIN LinkRedirects
              THEN LinkHasHref(env_getArticleUrl(title))
              ELSE LinkIsUnwrapped
           /\ lkMedia = <<>>

\* a link to the redirect LDN, with an anchor, has been rewritten
C17_Witness ==
    /\ LinkHadTitle
    /\ lkHref = "./LDN#History"
    /\ TheLink.href = "LDN.html"

\* ---------------------------------------------------------------- serializeUrl / deserializeUrl
\* the position of the first occurrence of p in s from i on (0 when absent)
RECURSIVE FindFrom(_, _, _)
FindFrom(s, p, i) ==
    IF i + Len(p) - 1 > Len(s) THEN 0
    ELSE IF SubSeq(s, i, i + Len(p) - 1) = p THEN i
    ELSE FindFrom(s, p, i + 1)

\* String.prototype.replace(p, ''): s without the first occurrence of p
RemoveFirst(s, p) ==
    LET at == FindFrom(s, p, 1)
    IN IF at = 0 THEN s ELSE SubSeq(s, 1, at - 1) \o Substr(s, at + Len(p))

\* urlParser.parse(url).path: the hash is not part of it; what follows the host
\* of a URL with a protocol and "//" ("/" when nothing does), what follows the
\* protocol when there is no "//", the whole of a string without a protocol,
\* null for ""
UrlPath(url) ==
    LET hash == IndexFrom(url, "#", 1)
        rest == IF hash = 0 THEN url ELSE SubSeq(url, 1, hash - 1)
        slashes == FindFrom(rest, "://", 1)
    IN IF url = "" THEN Null
       ELSE IF slashes = 0
       THEN IF StartsWith(rest, "https:") THEN Substr(rest, Len("https:") + 1) ELSE rest
       ELSE LET path == IndexFrom(rest, "/", slashes + 3)
            IN IF path = 0 THEN "/" ELSE Substr(rest, path)

\* Object.entries(this.urlPartCache).find(([cacheId, value]) => value === part):
\* the id of the first entry with the part, 0 when there is none
CacheEntry(cache, part) ==
    IF \E i \in 1..Len(cache) : cache[i] = part
    THEN CHOOSE i \in 1..Len(cache) : cache[i] = part /\ \A j \in 1..(i - 1) : cache[j] # part
    ELSE 0

\* url.replace(path, '')
cacheablePart(url) == RemoveFirst(url, UrlPath(url))

\* the cache after serializeUrl(url)
CacheAfter(cache, url) ==
    IF CacheEntry(cache, cacheablePart(url)) = 0 THEN Append(cache, cacheablePart(url)) ELSE cache

\* serializeUrl: the serialized URL
serializeUrl(cache, url) ==
    LET cacheEntry == CacheEntry(cache, cacheablePart(url))
        cacheId == IF cacheEntry = 0 THEN Len(cache) + 1 ELSE cacheEntry
    IN "_" \o ToString(cacheId) \o "_" \o UrlPath(url)

\* deserializeUrl
deserializeUrl(cache, url) ==
    IF ~StartsWith(url, "_") THEN url
    ELSE LET second == IndexFrom(url, "_", 2)
             cacheId == IF second = 0 THEN Substr(url, 2) ELSE SubSeq(url, 2, second - 1)
             path == IF second = 0 THEN "" ELSE Substr(url, second + 1)
             cachedPart ==
                 IF \E i \in 1..Len(cache) : ToString(i) = cacheId
                 THEN cache[CHOOSE i \in 1..Len(cache) : ToString(i) = cacheId]
                 ELSE Undefined
         IN cachedPart \o path

\* the URLs the Downloader serializes, and the strings it is asked to deserialize
UrlHosts == {"https://a.org", "https://b.org"}
UrlPaths == {"/", "/w/A_B", "/w/A?x=1"}
SerializedUrls ==
    {"_" \o ToString(id) \o "_" \o path : id \in 1..(MaxCache + 1), path \in UrlPaths \cup {""}}
        \cup {"_", "_1"}

InitUrlPart ==
    /\ urlPartCache = <<>>
    /\ upPc = "ready"
    /\ upX = ""
    /\ upUrl = ""
    /\ upBack = ""

IdleUrlPart ==
    /\ urlPartCache = <<>>
    /\ upPc = "idle"
    /\ upX = ""
    /\ upUrl = ""
    /\ upBack = ""

\* serializeUrl(url), as the Downloader calls it for the URLs it stores
SerializeUrl(url) ==
    /\ upPc = "ready"
    /\ Len(urlPartCache) < MaxCache
    /\ urlPartCache' = CacheAfter(urlPartCache, url)
    /\ UNCHANGED <<upPc, upX, upUrl, upBack>>
    /\ UNCHANGED notUrlPartVars

\* deserializeUrl(x) for a string that starts with '_'
DeserializeUrl(x) ==
    /\ upPc = "ready"
    /\ upX' = x
    /\ upUrl' = deserializeUrl(urlPartCache, x)
    /\ upPc' = "deserialized"
    /\ UNCHANGED <<urlPartCache, upBack>>
    /\ UNCHANGED notUrlPartVars

\* serializeUrl of what deserializeUrl returned
SerializeBack ==
    /\ upPc = "deserialized"
    /\ upBack' = serializeUrl(urlPartCache, upUrl)
    /\ urlPartCache' = CacheAfter(urlPartCache, upUrl)
    /\ upPc' = "serialized"
    /\ UNCHANGED <<upX, upUrl>>
    /\ UNCHANGED notUrlPartVars

\* C18: for every x that starts with '_', serializeUrl(deserializeUrl(x)) is
\* x, whatever the cache holds. The code does not keep this: url.replace(path,
\* '') removes the first occurrence of the path, which for the path "/" is a
\* slash of "https://", and an unknown cache id is read as undefined.
C18_AsClaimed == upPc = "serialized" => upBack = upX

\* the URLs handed to serializeUrl whose serialized form is read back: with a
\* path, with the path "/", with no path, with a query, with a fragment
RoundTripUrls ==
    {host \o path : host \in UrlHosts, path \in UrlPaths \cup {"", "/w/A#B"}}

\* deserializeUrl(serializeUrl(url)), as getJSON, downloadContent and the
\* callers that stored a serialized URL use the pair
SerializeThenDeserialize(url) ==
    /\ upPc = "ready"
    /\ Len(urlPartCache) < MaxCache
    /\ upX' = url
    /\ upBack' = serializeUrl(urlPartCache, url)
    /\ urlPartCache' = CacheAfter(urlPartCache, url)
    /\ upUrl' = deserializeUrl(urlPartCache', upBack')
    /\ upPc' = "returned"
    /\ UNCHANGED notUrlPartVars

\* deserializeUrl(url) for a string that does not start with '_'
DeserializePlain(url) ==
    /\ upPc = "ready"
    /\ upX' = url
    /\ upUrl' = deserializeUrl(urlPartCache, url)
    /\ upPc' = "plain"
    /\ UNCHANGED <<urlPartCache, upBack>>
    /\ UNCHANGED notUrlPartVars

\* C40: for every URL u and every state of urlPartCache,
\* deserializeUrl(serializeUrl(u)) is u, also when the path of u is "/" or u
\* carries a query or a fragment; serializeUrl gives the same key for the same
\* prefix and never changes the prefix bound to a key; deserializeUrl returns a
\* string that does not start with '_' unchanged. The code does not keep the
\* first part: url.replace(path, '') removes the first occurrence of the
\* path, which for the path "/" is a slash of "https://", and it leaves a
\* fragment in the prefix, so that deserializeUrl puts the path after it.
C40_AsClaimed ==
    /\ [](upPc = "returned" => upUrl = upX)
    /\ [](upPc = "plain" => upUrl = upX)
    /\ [](\A i, j \in 1..Len(urlPartCache) : urlPartCache[i] = urlPartCache[j] => i = j)
    /\ [][\A i \in 1..Len(urlPartCache) : urlPartCache'[i] = urlPartCache[i]]_vars

\* ---------------------------------------------------------------- encodeArticleIdForZimHtmlUrl
\* String.prototype.replace(/p/g, r): every occurrence of p in s, from the left
RECURSIVE ReplaceAll(_, _, _)
ReplaceAll(s, p, r) ==
    LET at == FindFrom(s, p, 1)
    IN IF at = 0 THEN s
       ELSE SubSeq(s, 1, at - 1) \o r \o ReplaceAll(Substr(s, at + Len(p)), p, r)

\* encodeArticleIdForZimHtmlUrl as it would be without the replace
encodeURIComponentOnly(articleId) ==
    IF articleId \in {Undefined, ""} THEN articleId ELSE encodeURIComponent(articleId)

\* articleId && encodeURIComponent(articleId).replace(/%2F/g, '/')
encodeArticleIdForZimHtmlUrl(articleId) ==
    IF articleId \in {Undefined, ""} THEN articleId
    ELSE ReplaceAll(encodeURIComponent(articleId), "%2F", "/")

\* the characters of an article id, and the ids
IdChars == {"g", "/", "%", "2", "F"}
EncodedIds == {Undefined} \cup Strings(IdChars, MaxLen)

InitEncode ==
    /\ enPc = "id"
    /\ enArticleId \in EncodedIds
    /\ enEncoded = ""
    /\ enDecoded = <<>>
    /\ enAgain = ""

IdleEncode ==
    /\ enPc = "idle"
    /\ enArticleId = ""
    /\ enEncoded = ""
    /\ enDecoded = <<>>
    /\ enAgain = ""

\* encodeArticleIdForZimHtmlUrl(articleId)
EncodeId ==
    /\ enPc = "id"
    /\ enEncoded' = encodeArticleIdForZimHtmlUrl(enArticleId)
    /\ enPc' = "encoded"
    /\ UNCHANGED <<enArticleId, enDecoded, enAgain>>
    /\ UNCHANGED notEncodeVars

\* decodeURIComponent of the encoded id, as the reader of the archive does
DecodeId ==
    /\ enPc = "encoded"
    /\ enEncoded # Undefined
    /\ enDecoded' = decodeURIComponent(enEncoded)
    /\ enPc' = "decoded"
    /\ UNCHANGED <<enArticleId, enEncoded, enAgain>>
    /\ UNCHANGED notEncodeVars

\* encodeArticleIdForZimHtmlUrl of the decoded id
EncodeAgain ==
    /\ enPc = "decoded"
    /\ enDecoded # <<>>
    /\ enAgain' = encodeArticleIdForZimHtmlUrl(enDecoded[1])
    /\ enPc' = "again"
    /\ UNCHANGED <<enArticleId, enEncoded, enDecoded>>
    /\ UNCHANGED notEncodeVars

\* the id with every character but '/' escaped as encodeURIComponent escapes it
RECURSIVE EscapedButSlash(_, _)
EscapedButSlash(s, i) ==
    IF i > Len(s) THEN ""
    ELSE (IF Char(s, i) = "/" THEN "/" ELSE EncodeChar(Char(s, i))) \o EscapedButSlash(s, i + 1)

\* C19: encodeArticleIdForZimHtmlUrl escapes every character that
\* encodeURIComponent escapes except '/', which stays; decoding the result
\* gives the id, and encoding that gives the result again; an undefined or
\* empty id is returned as it is
C19_EncodeArticleId ==
    /\ (enPc # "id" /\ enArticleId \in {Undefined, ""}) => enEncoded = enArticleId
    /\ (enPc # "id" /\ enArticleId \notin {Undefined, ""}) =>
           enEncoded = EscapedButSlash(enArticleId, 1)
    /\ (enPc \in {"decoded", "again"}) => enDecoded = <<enArticleId>>
    /\ enPc = "again" => enAgain = enEncoded

\* the id "/%" went through the round trip
C19_Witness ==
    /\ enPc = "again"
    /\ enArticleId = "/%"
    /\ enEncoded = "/%25"
    /\ enAgain = "/%25"

\* ---------------------------------------------------------------- applyOtherTreatments: empty paragraphs
\* the tags of the child elements of the document
ElementTags == {"h1", "h2", "h3", "h4", "h5", "h6", "p", "hr"}

\* the decimal digits by their character
Digits == [c \in {"0", "1", "2", "3", "4", "5", "6", "7", "8", "9"} |->
              CHOOSE n \in 0..9 : ToString(n) = c]

\* nextElementNodeTag.length > 1 && nextElementNodeTag[0] === 'h'
\*     && !isNaN(nextElementNodeTag[1]) && nextElementNodeTag[1] <= level
IsParagraphUpTo(tag, level) ==
    /\ Len(tag) > 1
    /\ Char(tag, 1) = "h"
    /\ Char(tag, 2) \in DOMAIN Digits
    /\ Digits[Char(tag, 2)] <= level

\* parsoidDoc.getElementsByTagName(`h${level}`): the places of the elements
\* with the tag among the children as they are now (the collection is live)
RECURSIVE TagPlaces(_, _, _)
TagPlaces(nodes, tag, from) ==
    IF from > Len(nodes) THEN <<>>
    ELSE (IF nodes[from].tag = tag THEN <<from>> ELSE <<>>) \o TagPlaces(nodes, tag, from + 1)

\* the loops over level and i, from (level, i) on; i counts from 0
RECURSIVE RemoveEmptyParagraphs(_, _, _, _)
RemoveEmptyParagraphs(nodes, isSummary, level, i) ==
    IF level = 0 THEN nodes
    ELSE LET paragraphNodes == TagPlaces(nodes, "h" \o ToString(level), 1)
         IN IF i >= Len(paragraphNodes)
            THEN RemoveEmptyParagraphs(nodes, isSummary, level - 1, 0)
            ELSE LET at == paragraphNodes[i + 1]
                     delete ==
                         /\ ~isSummary
                         /\ \/ at = Len(nodes)
                            \/ /\ at < Len(nodes)
                               /\ IsParagraphUpTo(nodes[at + 1].tag, level)
                 IN RemoveEmptyParagraphs(IF delete THEN Deleted(nodes, at) ELSE nodes,
                                          isSummary, level, i + 1)

\* the child elements of a parent, each with its place in the parsed document
Children(tags) == [i \in 1..Len(tags) |-> [id |-> i, tag |-> tags[i]]]

\* the sequences of at most n tags
RECURSIVE TagSeqs(_)
TagSeqs(n) ==
    IF n = 0 THEN {<<>>}
    ELSE LET shorter == TagSeqs(n - 1)
         IN shorter \cup {Append(s, tag) : s \in shorter, tag \in ElementTags}

InitHeading ==
    /\ hdPc = "parsed"
    /\ hdParent \in {"DIV", "SUMMARY"}
    /\ hdBefore \in {Children(tags) : tags \in TagSeqs(MaxHeadings)}
    /\ hdNodes = hdBefore
    /\ keepEmptyParagraphs \in BOOLEAN

IdleHeading ==
    /\ hdPc = "idle"
    /\ hdParent = ""
    /\ hdBefore = <<>>
    /\ hdNodes = <<>>
    /\ keepEmptyParagraphs = FALSE

\* applyOtherTreatments, the removal of empty paragraphs
RemoveParagraphs ==
    /\ hdPc = "parsed"
    /\ hdNodes' = IF keepEmptyParagraphs THEN hdNodes
                  ELSE RemoveEmptyParagraphs(hdNodes, hdParent = "SUMMARY", 5, 0)
    /\ hdPc' = "cleaned"
    /\ UNCHANGED <<hdParent, hdBefore, keepEmptyParagraphs>>
    /\ UNCHANGED notHeadingVars

\* the headings h1..h5 of the parsed document that had no following element
\* sibling or were followed by a heading of equal or lower level
EmptyParagraphs ==
    {i \in 1..Len(hdBefore) :
        /\ \E level \in 1..5 : hdBefore[i].tag = "h" \o ToString(level)
        /\ \/ i = Len(hdBefore)
           \/ /\ i < Len(hdBefore)
              /\ \E level \in 1..5 :
                     /\ hdBefore[i].tag = "h" \o ToString(level)
                     /\ IsParagraphUpTo(hdBefore[i + 1].tag, level)}

\* C20: with empty-paragraph removal on, after the pass every heading h1..h5
\* whose parent is not SUMMARY and that had no following element sibling, or
\* was followed by a heading of equal or lower level, is deleted; of two
\* adjacent h3 with nothing after them both are. The code does not keep
\* this: the collection it walks is live, so after a deletion the next
\* heading of the level is skipped.
C20_AsClaimed ==
    (hdPc = "cleaned" /\ ~keepEmptyParagraphs /\ hdParent # "SUMMARY") =>
        \A i \in EmptyParagraphs : \A j \in 1..Len(hdNodes) : hdNodes[j].id # i

\* ---------------------------------------------------------------- treatVideo
\* the URLs the video element names: its poster and the src of its sources
VideoSrcs == [origin : {UploadHost}, file : {"g", "v"}, px : {<<>>}, x : {<<>>}]

\* aWidth * aHeight of a source element; 0 without width or height
SourceVals == 0..1

SourceEls == [src : VideoSrcs, val : SourceVals]

\* the sequences of at most n source elements
RECURSIVE SourceSeqs(_)
SourceSeqs(n) ==
    IF n = 0 THEN {<<>>}
    ELSE LET shorter == SourceSeqs(n - 1)
         IN shorter \cup {Append(s, el) : s \in shorter, el \in SourceEls}

VideoEls ==
    [poster : {<<>>} \cup {<<src>> : src \in VideoSrcs},
     height : {<<>>, <<30>>, <<50>>},
     controls : {<<>>},
     sources : SourceSeqs(MaxSources)]

\* what getFullUrl makes of a poster attribute that is null: it throws, or it
\* resolves the text 'null' against the host of the wiki
FullUrlOfNull == {"throws", "resolves"}

NullUrl == [file |-> "//" \o webUrlHost \o "/null", px |-> <<>>, x |-> <<>>]

\* getRelativeFilePath(parentArticleId, fileBase, resourceNamespace)
getRelativeFilePath(parentArticleId, fileBase, resourceNamespace) ==
    upStr(parentArticleId) \o resourceNamespace \o "/" \o fileBase

\* widthXHeightSorter never answers 0: among the sources of the least value
\* any may come first
FirstSources(videoSources) ==
    {i \in 1..Len(videoSources) :
        \A j \in 1..Len(videoSources) : videoSources[i].val <= videoSources[j].val}

\* a URL as the src or poster attribute holds it once rewritten
LocalSrc(path) == [origin |-> "", file |-> path, px |-> <<>>, x |-> <<>>]

\* treatVideo on the element: the element afterwards (<<>> once deleted), the
\* media dependencies, and whether it threw; first is the source the sort
\* puts first
treatVideo(articleId, videoEl, dump, ofNull, first) ==
    LET posterUrl == videoEl.poster
        threw(el) == [video |-> <<el>>, mediaDependencies |-> <<>>, threw |-> TRUE]
    IN IF posterUrl = <<>> /\ ofNull = "throws" THEN threw(videoEl)
       ELSE LET videoPosterUrl ==
                    IF posterUrl = <<>> THEN NullUrl ELSE getFullUrl(webUrlHost, posterUrl[1])
                newVideoPosterUrl ==
                    getRelativeFilePath(articleId, getMediaBase(videoPosterUrl, TRUE), "I")
                shown == [videoEl EXCEPT
                             !.height = IF @ # <<>> /\ @[1] < 40 THEN <<40>> ELSE @,
                             !.controls = <<"40">>]
                withPoster == [shown EXCEPT
                                  !.poster = IF posterUrl # <<>>
                                             THEN <<LocalSrc(newVideoPosterUrl)>> ELSE @]
            IN IF dump.nopic \/ dump.novid \/ dump.nodet
               THEN [video |-> <<>>, mediaDependencies |-> <<>>, threw |-> FALSE]
               ELSE IF videoEl.sources = <<>>
               THEN \* sourceEl is undefined: sourceEl.getAttribute throws
                    threw(withPoster)
               ELSE LET sourceEl == videoEl.sources[first]
                        sourceUrl == getFullUrl(webUrlHost, sourceEl.src)
                        fileBase == getMediaBase(sourceUrl, TRUE)
                        newUrl == getRelativeFilePath(articleId, fileBase, "I")
                    IN IF fileBase = ""
                       THEN \* return without a value: ret.mediaDependencies throws
                            threw([withPoster EXCEPT !.sources = <<>>])
                       ELSE [video |-> <<[withPoster EXCEPT
                                            !.sources = <<[sourceEl EXCEPT !.src = LocalSrc(newUrl)]>>]>>,
                             mediaDependencies |->
                                 <<videoPosterUrl>> \o
                                     (IF sourceUrl = videoPosterUrl THEN <<>> ELSE <<sourceUrl>>),
                             threw |-> FALSE]

NoDump == [nopic |-> FALSE, novid |-> FALSE, nodet |-> FALSE]

InitVideo ==
    /\ vdPc = "parsed"
    /\ vdArticleId \in MediaArticleIds
    /\ vdDump \in [nopic : BOOLEAN, novid : BOOLEAN, nodet : BOOLEAN]
    /\ vdBefore \in VideoEls
    /\ vdVideo = <<vdBefore>>
    /\ vdDeps = <<>>

IdleVideo ==
    /\ vdPc = "idle"
    /\ vdArticleId = ""
    /\ vdDump = NoDump
    /\ vdBefore = <<>>
    /\ vdVideo = <<>>
    /\ vdDeps = <<>>

\* treatMedias: for (const videoEl of videos) { ret = await treatVideo(...) }
TreatVideo ==
    /\ vdPc = "parsed"
    /\ \E ofNull \in FullUrlOfNull :
       \E first \in IF vdBefore.sources = <<>> THEN {0} ELSE FirstSources(vdBefore.sources) :
           LET ret == treatVideo(vdArticleId, vdBefore, vdDump, ofNull, first)
           IN /\ vdVideo' = ret.video
              /\ vdDeps' = ret.mediaDependencies
              /\ vdPc' = IF ret.threw THEN "threw" ELSE "returned"
    /\ UNCHANGED <<vdArticleId, vdDump, vdBefore>>
    /\ UNCHANGED notVideoVars

Callers == 1..MaxCallers

\* the Downloader of the unit test (speed: 1), every caller in claimRequest
InitPool ==
    /\ speed = 1
    /\ maxActiveRequests = speed * RequestsPerSpeed
    /\ activeRequests = 0
    /\ calls = [c \in Callers |-> [IdleCall EXCEPT !.kind = "getJSON", !.pc = "claim"]]

\* the upstream throttles the first request of the first caller
Throttled == calls[1].attempts = 1 /\ GetJSONAnswer(1, "429")

\* C28: claimRequest increments activeRequests only in a state where
\* activeRequests < maxActiveRequests, by one, so under any interleaving of
\* callers the number of requests in flight never exceeds speed * 10, and
\* activeRequests is never negative.
C28_ClaimIsAtomic ==
    /\ [](activeRequests >= 0 /\ activeRequests <= speed * RequestsPerSpeed)
    /\ [][activeRequests' > activeRequests =>
             /\ activeRequests < maxActiveRequests
             /\ activeRequests' = activeRequests + 1]_vars

\* a 429 has lowered the limit to 9, every slot is taken and two callers poll
C28_Witness ==
    /\ maxActiveRequests = 9
    /\ activeRequests = maxActiveRequests
    /\ \E c, d \in Callers : c # d /\ calls[c].pc = "claim" /\ calls[d].pc = "claim"

\* ---------------------------------------------------------------- rewriteUrl: geo links
\* String.prototype.split(sep) for a one-character separator
RECURSIVE SplitFrom(_, _, _)
SplitFrom(s, sep, i) ==
    LET at == IndexFrom(s, sep, i)
    IN IF at = 0 THEN <<Substr(s, i)>>
       ELSE <<SubSeq(s, i, at - 1)>> \o SplitFrom(s, sep, at + 1)

Split(s, sep) == SplitFrom(s, sep, 1)

\* String.prototype.toUpperCase
UpperOf ==
    [a |-> "A", b |-> "B", c |-> "C", d |-> "D", e |-> "E", f |-> "F", g |-> "G", h |->
     "H", i |-> "I", j |-> "J", k |-> "K", l |-> "L", m |-> "M", n |-> "N", o |-> "O", p
     |-> "P", q |-> "Q", r |-> "R", s |-> "S", t |-> "T", u |-> "U", v |-> "V", w |->
     "W", x |-> "X", y |-> "Y", z |-> "Z"]

RECURSIVE ToUpperFrom(_, _)
ToUpperFrom(s, i) ==
    IF i > Len(s) THEN ""
    ELSE (IF Char(s, i) \in DOMAIN UpperOf THEN UpperOf[Char(s, i)] ELSE Char(s, i))
             \o ToUpperFrom(s, i + 1)

toUpperCase(s) == ToUpperFrom(s, 1)

\* the value of a run of decimal digits
RECURSIVE DigitsValue(_, _, _)
DigitsValue(s, i, acc) ==
    IF i > Len(s) THEN acc ELSE DigitsValue(s, i + 1, 10 * acc + Digits[Char(s, i)])

IsDigits(s) == \A i \in 1..Len(s) : Char(s, i) \in DOMAIN Digits

\* +v: the number a string denotes, <<>> for NaN; +'' is 0
ToNumber(v) == IF IsDigits(v) THEN <<DigitsValue(v, 1, 0)>> ELSE <<>>

\* parseFloat(v): NaN for '' and undefined
parseFloat(v) == IF v # "" /\ IsDigits(v) THEN <<DigitsValue(v, 1, 0)>> ELSE <<>>

\* url.parse(href, true).query[name]: '' stands for undefined
QueryParam(href, name) ==
    LET query == IndexFrom(href, "?", 1)
        at == IF query = 0 THEN 0 ELSE FindFrom(href, name \o "=", query)
        from == at + Len(name) + 1
        amp == IF at = 0 THEN 0 ELSE IndexFrom(href, "&", from)
    IN IF at = 0 THEN ""
       ELSE IF amp = 0 THEN Substr(href, from) ELSE SubSeq(href, from, amp - 1)

\* coordinates are kept in seconds of arc: one degree is 3600
Degree == 3600

\* factors = [1, 60, 3600] as the dividend gains: v / factors[i], in seconds
\* of arc, as it would be with 100 minutes to the degree
factorsDecimal(i) == IF i = 0 THEN Degree ELSE IF i = 1 THEN 36 ELSE 1

\* v / factors[i] in seconds of arc: Degree / factors[i]
factors(i) == IF i = 0 THEN Degree ELSE IF i = 1 THEN 60 ELSE 1

HemiLat == [N |-> 1, S |-> -1]
HemiLon == [E |-> 1, W |-> -1, O |-> 1]

\* the loop of deg(hemiHash) from i on; out is <<>> once it is NaN. It
\* answers out * hemiSign and the new offs
RECURSIVE degFrom(_, _, _, _, _, _)
degFrom(pieces, offs, hemiHash, i, out, hemiSign) ==
    IF i < 4 /\ i + offs < Len(pieces)
    THEN LET v == pieces[i + offs + 1]
         IN IF v \in DOMAIN hemiHash
            THEN [out |-> IF out = <<>> THEN <<>> ELSE <<out[1] * hemiHash[v]>>, offs |-> i + 1]
            ELSE degFrom(pieces, offs, hemiHash, i + 1,
                         IF out = <<>> \/ ToNumber(v) = <<>> \/ i > 2 THEN <<>>
                         ELSE <<out[1] + ToNumber(v)[1] * factors(i)>>,
                         <<>>)
    ELSE \* hemiSign is 0 if the loop never ran, undefined otherwise
         [out |-> IF hemiSign = <<>> \/ out = <<>> THEN <<>> ELSE <<out[1] * hemiSign[1]>>,
          offs |-> offs]

deg(pieces, offs, hemiHash) == degFrom(pieces, offs, hemiHash, 0, <<0>>, <<0>>)

\* a coordinate given as text, in seconds of arc
InDegrees(v) == IF ToNumber(v) = <<>> THEN <<>> ELSE <<ToNumber(v)[1] * Degree>>

\* lat and lon of the geohack.php branch
geohack(params) ==
    IF params = "" THEN [lat |-> <<>>, lon |-> <<>>]
    ELSE LET pieces == Split(toUpperCase(params), "_")
             semiPieces == Split(pieces[1], ";")
         IN IF Len(semiPieces) = 2
            THEN [lat |-> InDegrees(semiPieces[1]), lon |-> InDegrees(semiPieces[2])]
            ELSE LET lat == deg(pieces, 0, HemiLat)
                     lon == deg(pieces, lat.offs, HemiLon)
                 IN [lat |-> lat.out, lon |-> lon.out]

\* lat and lon of a link, by the branches of rewriteUrl
geoOf(href) ==
    IF FindFrom(toUpperCase(href), "POIMAP2.PHP", 1) # 0
    THEN [lat |-> IF parseFloat(QueryParam(href, "lat")) = <<>> THEN <<>>
                  ELSE InDegrees(QueryParam(href, "lat")),
          lon |-> IF parseFloat(QueryParam(href, "lon")) = <<>> THEN <<>>
                  ELSE InDegrees(QueryParam(href, "lon"))]
    ELSE IF FindFrom(toUpperCase(href), "GEOHACK.PHP", 1) # 0
    THEN geohack(QueryParam(href, "params"))
    ELSE IF FindFrom(href, "Special:Map", 1) # 0
    THEN LET parts == Split(href, "/")
         IN [lat |-> IF Len(parts) < 5 THEN <<>> ELSE InDegrees(parts[5]),
             lon |-> IF Len(parts) < 6 THEN <<>> ELSE InDegrees(parts[6])]
    ELSE [lat |-> <<>>, lon |-> <<>>]

\* the href attribute: a text, or 'geo:' + lat + ',' + lon
TextHref(text) == [scheme |-> "", text |-> text, lat |-> 0, lon |-> 0]
GeoHref(lat, lon) == [scheme |-> "geo:", text |-> "", lat |-> lat, lon |-> lon]

\* the coordinates links are written from: degrees, minutes, seconds, hemisphere
GeoCoords ==
    [latD : {0, 48}, latM : {0, 51}, latS : {0, 29}, latH : {"N", "S", "s"},
     lonD : {2, 122}, lonM : {17}, lonS : {0, 40}, lonH : {"E", "W", "O"}]

NoCoords ==
    [latD |-> 0, latM |-> 0, latS |-> 0, latH |-> "", lonD |-> 0, lonM |-> 0, lonS |-> 0,
     lonH |-> ""]

\* params of the form D_M_S_H_D_M_S_H, with what may follow
DMSH(c) ==
    ToString(c.latD) \o "_" \o ToString(c.latM) \o "_" \o ToString(c.latS) \o "_" \o c.latH
        \o "_" \o ToString(c.lonD) \o "_" \o ToString(c.lonM) \o "_" \o ToString(c.lonS)
        \o "_" \o c.lonH

GeohackUrl == "//tools.wmflabs.org/geohack/geohack.php?pagename=P&params="

\* hrefs of other forms
OtherGeoHrefs ==
    {GeohackUrl \o "48_N_2_E", GeohackUrl \o "48;2", GeohackUrl \o "48_N",
     GeohackUrl \o "X_N_2_E", GeohackUrl \o "48_51_29_1_N_2_E", GeohackUrl,
     "//maps.wikivoyage-ev.org/w/poimap2.php?lat=44&lon=34&zoom=15",
     "//maps.wikivoyage-ev.org/w/poimap2.php?zoom=15",
     "//en.wikivoyage.org/wiki/Special:Map/15/44/34", "./London"}

GeoRels == {"", "mw:ExtLink", "nofollow", "mw:WikiLink"}

InitGeo ==
    /\ geoPc = "parsed"
    /\ geoRel \in GeoRels
    /\ \/ /\ geoParams \in GeoCoords
          /\ \E suffix \in {"", "_type:landmark"} : geoHref = GeohackUrl \o DMSH(geoParams) \o suffix
       \/ /\ geoParams = NoCoords
          /\ geoHref \in OtherGeoHrefs
    /\ geoNew = TextHref(geoHref)

IdleGeo ==
    /\ geoPc = "idle"
    /\ geoRel = ""
    /\ geoParams = NoCoords
    /\ geoHref = ""
    /\ geoNew = TextHref("")

\* rewriteUrl on a link that is not a wiki link: the geo replacement
RewriteGeo ==
    /\ geoPc = "parsed"
    /\ geoRel # "mw:WikiLink"
    /\ LET geo == geoOf(geoHref)
       IN geoNew' = IF geo.lat # <<>> /\ geo.lon # <<>>
                    THEN GeoHref(geo.lat[1], geo.lon[1]) ELSE geoNew
    /\ geoPc' = "rewritten"
    /\ UNCHANGED <<geoRel, geoParams, geoHref>>
    /\ UNCHANGED notGeoVars

\* rewriteUrl on a wiki link: no geo replacement
RewriteNoGeo ==
    /\ geoPc = "parsed"
    /\ geoRel = "mw:WikiLink"
    /\ geoPc' = "rewritten"
    /\ UNCHANGED <<geoRel, geoParams, geoHref, geoNew>>
    /\ UNCHANGED notGeoVars

\* the sign of a hemisphere: -1 for S and W, +1 for N, E and O
SignOf(h) == IF h \in {"S", "s", "W"} THEN -1 ELSE 1

\* C23: for a geohack.php link, rel other than mw:WikiLink, whose params have
\* the form D_M_S_H_D_M_S_H, the href becomes 'geo:lat,lon' with
\* lat = sign * (D + M/60 + S/3600) and likewise lon, the sign being -1 for S
\* and W and +1 for N, E and O (48_51_29_N_2_17_40_E gives 48.858055..,
\* 2.294444..); coordinates are compared in seconds of arc.
C23_GeohackDMS ==
    (geoPc = "rewritten" /\ geoParams # NoCoords /\ geoRel # "mw:WikiLink") =>
        geoNew = GeoHref(SignOf(geoParams.latH)
                             * (geoParams.latD * Degree + geoParams.latM * 60 + geoParams.latS),
                         SignOf(geoParams.lonH)
                             * (geoParams.lonD * Degree + geoParams.lonM * 60 + geoParams.lonS))

\* the link of the Eiffel tower: 48_51_29_N_2_17_40_E
C23_Witness ==
    /\ geoPc = "rewritten"
    /\ geoRel = "mw:ExtLink"
    /\ geoHref = GeohackUrl \o "48_51_29_N_2_17_40_E"
    /\ geoNew = GeoHref(175889, 8260)

\* ---------------------------------------------------------------- getArticleDetailsIds
\* the props of the query that continue, by the key of resp.continue
ContinuedProps == {"categories", "redirects", "coordinates"}

\* propsMap of stripNonContinuedProps: the keys of a detail by prop
propsMap ==
    [pageimages |-> {"thumbnail", "pageimage"}, redirects |-> {"redirects"},
     coordinates |-> {"coordinates"}, categories |-> {"categories"}]

\* the title asked for
DetailTitle == "London"

\* the items the wiki holds for a prop of the title
PropItems(prop, n) == [i \in 1..n |-> prop \o ToString(i)]

\* normalizeMwResponse(resp.query): the details of the pages by title
normalizeMwResponse(query) == [title \in {page.title : page \in query} |->
                                  (CHOOSE page \in query : page.title = title).detail]

\* stripNonContinuedProps(articleDetails, cont): of every detail the keys of
\* keysToKeep whose value is not falsy
stripNonContinuedProps(articleDetails, cont) ==
    LET keysToKeep == {"subCategories"} \cup UNION {propsMap[key] : key \in cont \cap DOMAIN propsMap}
    IN [aId \in DOMAIN articleDetails |->
           [key \in keysToKeep \cap DOMAIN articleDetails[aId] |-> articleDetails[aId][key]]]

\* deepmerge(x, y) of two details: the keys of both, arrays concatenated
MergedDetail(x, y) ==
    [key \in DOMAIN x \cup DOMAIN y |->
        IF key \in DOMAIN x /\ key \in DOMAIN y THEN x[key] \o y[key]
        ELSE IF key \in DOMAIN x THEN x[key] ELSE y[key]]

\* deepmerge(x, y) of two responses
deepmerge(x, y) ==
    [aId \in DOMAIN x \cup DOMAIN y |->
        IF aId \in DOMAIN x /\ aId \in DOMAIN y THEN MergedDetail(x[aId], y[aId])
        ELSE IF aId \in DOMAIN x THEN x[aId] ELSE y[aId]]

\* the second argument the code gives stripNonContinuedProps: none
NoCont == {}

InitDetails ==
    /\ dtPc = "loop"
    /\ dtRemaining \in {[prop \in ContinuedProps |-> PropItems(prop, n[prop])] :
                           n \in [ContinuedProps -> 0..MaxItems]}
    /\ dtContinuation = <<>>
    /\ dtFinal = <<>>
    /\ dtDelivered = [prop \in ContinuedProps |-> <<>>]
    /\ dtRequests = <<>>

IdleDetails ==
    /\ dtPc = "idle"
    /\ dtRemaining = <<>>
    /\ dtContinuation = <<>>
    /\ dtFinal = <<>>
    /\ dtDelivered = <<>>
    /\ dtRequests = <<>>

\* the request of one turn of the loop: the props it continues (all of them
\* start with the first request)
DetailsRequest ==
    /\ dtPc = "loop"
    /\ dtRequests' = Append(dtRequests, IF dtContinuation = <<>> THEN ContinuedProps
                                        ELSE dtContinuation[1])
    /\ dtPc' = "await"
    /\ UNCHANGED <<dtRemaining, dtContinuation, dtFinal, dtDelivered>>
    /\ UNCHANGED notDetailsVars

\* the wiki's answer to the last request: of every prop the request continues
\* the next items, as many as the wiki chooses, and resp.continue for the
\* props that have more
Answered(sizes) ==
    LET asked == dtRequests[Len(dtRequests)]
        delivered == [prop \in asked |-> SubSeq(dtRemaining[prop], 1, sizes[prop])]
    IN [query |-> {[title |-> DetailTitle,
                    detail |-> [prop \in {p \in asked : delivered[p] # <<>>} |-> delivered[prop]]]},
        continue |-> {prop \in asked : sizes[prop] < Len(dtRemaining[prop])}]

\* the answer arrives: a continued page is stripped and merged and the loop
\* goes on, the last page is merged whole and the function returns
DetailsResponse(sizes) ==
    /\ dtPc = "await"
    /\ DOMAIN sizes = dtRequests[Len(dtRequests)]
    /\ \A prop \in DOMAIN sizes :
           /\ sizes[prop] <= Len(dtRemaining[prop])
           /\ dtRemaining[prop] # <<>> => sizes[prop] >= 1
    /\ LET resp == Answered(sizes)
           processedResponse == normalizeMwResponse(resp.query)
           merged(details) == IF dtFinal = <<>> THEN <<details>>
                              ELSE <<deepmerge(dtFinal[1], details)>>
       IN /\ IF resp.continue # {}
             THEN /\ dtContinuation' = <<resp.continue>>
                  /\ dtFinal' = merged(stripNonContinuedProps(processedResponse, NoCont))
                  /\ dtPc' = "loop"
             ELSE /\ dtFinal' = merged(processedResponse)
                  /\ dtPc' = "returned"
                  /\ UNCHANGED dtContinuation
          /\ dtDelivered' = [prop \in ContinuedProps |->
                                IF prop \in DOMAIN sizes
                                THEN dtDelivered[prop] \o SubSeq(dtRemaining[prop], 1, sizes[prop])
                                ELSE dtDelivered[prop]]
          /\ dtRemaining' = [prop \in ContinuedProps |->
                                IF prop \in DOMAIN sizes
                                THEN SubSeq(dtRemaining[prop], sizes[prop] + 1, Len(dtRemaining[prop]))
                                ELSE dtRemaining[prop]]
    /\ UNCHANGED dtRequests
    /\ UNCHANGED notDetailsVars

\* what the returned detail of the title holds for a prop
Returned(prop) ==
    IF prop \in DOMAIN dtFinal[1][DetailTitle] THEN dtFinal[1][DetailTitle][prop] ELSE <<>>

\* C30: the ArticleDetail returned for a title contains every item of every
\* continued prop delivered for the title on any page of the continuation
\* sequence, each exactly once. The code does not keep this: the continued
\* pages are stripped of every prop before they are merged.
C30_AsClaimed ==
    dtPc = "returned" =>
        \A prop \in ContinuedProps :
            \A i \in 1..Len(dtDelivered[prop]) :
                Cardinality({j \in 1..Len(Returned(prop)) :
                                Returned(prop)[j] = dtDelivered[prop][i]}) = 1

\* ---------------------------------------------------------------- getArticle: the shape of the response
\* the contents a response can carry
VEContent == "<body class='mw-body-content'>visualeditor</body>"
HtmlBody == "<p>html.body</p>"
ParseText == "<p>parse.text</p>"

\* a JS value used as a condition
Truthy(v) == v # Undefined /\ v # "" /\ v # Null

\* the parsed responses: null, or an object in which each known field is
\* absent (<<>>) or present; html is present with body undefined, '' or a
\* document; parse is present with text undefined or with text['*']
JsonObjects ==
    [visualeditor : {<<>>, <<VEContent>>},
     contentmodel : {Undefined, "wikitext"},
     html : {<<>>, <<Undefined>>, <<"">>, <<HtmlBody>>},
     parse : {<<>>, <<Undefined>>, <<ParseText>>},
     error : BOOLEAN,
     lead : BOOLEAN]

Jsons == {<<>>} \cup {<<j>> : j \in JsonObjects}

Threw == [threw |-> TRUE, html |-> Undefined]
Returns(html) == [threw |-> FALSE, html |-> html]

\* articleRenderers.ts 79-87: an h1 with the title is inserted at the start of body.mw-body-content
injectHeader(content, title) == "<h1 class='article-header'>" \o title \o "</h1>" \o content

\* articleRenderers.ts 89-101: what renderDesktopArticle returns, or that it
\* throws (no json; json.html.body when contentmodel is 'wikitext' and the
\* response has no html field)
renderDesktopArticle(json, title, isMainPage) ==
    IF json = <<>> THEN Threw
    ELSE LET j == json[1]
         IN IF j.visualeditor # <<>>
            THEN Returns(IF isMainPage THEN j.visualeditor[1] ELSE injectHeader(j.visualeditor[1], title))
            ELSE IF j.contentmodel = "wikitext" \/ (j.html # <<>> /\ Truthy(j.html[1]))
            THEN (IF j.html = <<>> THEN Threw ELSE Returns(j.html[1]))
            ELSE IF j.parse # <<>> /\ Truthy(j.parse[1]) THEN Returns(j.parse[1])
            ELSE IF j.error THEN Returns("")
            ELSE Returns(Undefined)

\* articleRenderers.ts 104-110: renderMCSArticle reads json.lead.displaytitle first
renderMCSArticle(json) ==
    IF json = <<>> \/ ~json[1].lead THEN Threw ELSE Returns("<h1>lead</h1>")

InitDesktop ==
    /\ dkPc = "getArticle"
    /\ dkJson \in Jsons
    /\ dkIsMainPage \in BOOLEAN
    /\ dkRestApiAvailable \in BOOLEAN
    /\ dkPath = ""
    /\ dkRets = <<>>
    /\ dkStatus = [success |-> 0, fail |-> 0]
    /\ dkArchive = {}

IdleDesktop ==
    /\ dkPc = "idle"
    /\ dkJson = <<>>
    /\ dkIsMainPage = FALSE
    /\ dkRestApiAvailable = TRUE
    /\ dkPath = ""
    /\ dkRets = <<>>
    /\ dkStatus = [success |-> 0, fail |-> 0]
    /\ dkArchive = {}

\* saveArticles.ts 128-132: the catch of the article
DesktopCatch ==
    /\ dkStatus' = [dkStatus EXCEPT !.fail = @ + 1]
    /\ dkPc' = "caught"

\* articleRenderers.ts 21-32 under saveArticles.ts 88: the desktop path
RenderArticleDesktop ==
    /\ dkPc = "getArticle"
    /\ IsRendered(dkIsMainPage, dkRestApiAvailable)
    /\ dkPath' = "desktop"
    /\ LET r == renderDesktopArticle(dkJson, "London", dkIsMainPage)
       IN IF r.threw
          THEN DesktopCatch /\ UNCHANGED dkRets
          ELSE dkRets' = <<r.html>> /\ dkPc' = "rets" /\ UNCHANGED dkStatus
    /\ UNCHANGED <<dkJson, dkIsMainPage, dkRestApiAvailable, dkArchive>>
    /\ UNCHANGED notDesktopVars

\* articleRenderers.ts 34-74 under saveArticles.ts 88: the mobile-sections path
RenderArticleMCS ==
    /\ dkPc = "getArticle"
    /\ ~IsRendered(dkIsMainPage, dkRestApiAvailable)
    /\ dkPath' = "mcs"
    /\ LET r == renderMCSArticle(dkJson)
       IN IF r.threw
          THEN DesktopCatch /\ UNCHANGED dkRets
          ELSE dkRets' = <<r.html>> /\ dkPc' = "rets" /\ UNCHANGED dkStatus
    /\ UNCHANGED <<dkJson, dkIsMainPage, dkRestApiAvailable, dkArchive>>
    /\ UNCHANGED notDesktopVars

\* saveArticles.ts 94-97: if (!articleHtml) { logger.warn(...); continue; }
SkipNoHtml ==
    /\ dkPc = "rets"
    /\ ~Truthy(dkRets[1])
    /\ dkPc' = "skipped"
    /\ UNCHANGED <<dkJson, dkIsMainPage, dkRestApiAvailable, dkPath, dkRets, dkStatus, dkArchive>>
    /\ UNCHANGED notDesktopVars

\* saveArticles.ts 99-126: the article is processed, templated and added, or
\* one of these throws
SaveHtml ==
    /\ dkPc = "rets"
    /\ Truthy(dkRets[1])
    /\ \/ /\ dkArchive' = dkArchive \cup {"London"}
          /\ dkStatus' = [dkStatus EXCEPT !.success = @ + 1]
          /\ dkPc' = "saved"
       \/ /\ DesktopCatch
          /\ UNCHANGED dkArchive
    /\ UNCHANGED <<dkJson, dkIsMainPage, dkRestApiAvailable, dkPath, dkRets>>
    /\ UNCHANGED notDesktopVars

\* the response is an error body, or an object with none of the known
\* content fields
Malformed(json) ==
    /\ json # <<>>
    /\ json[1].visualeditor = <<>> /\ json[1].html = <<>> /\ json[1].parse = <<>>
    /\ json[1].contentmodel = Undefined /\ ~json[1].lead

\* C31 as the specification states it: an article whose response is an error
\* body or has none of the known content fields, so that rendering yields no
\* HTML, gets no archive entry and adds 1 to articles.fail. The code does not
\* count it: renderDesktopArticle returns '' or undefined and saveArticles
\* skips the shard with continue, outside the catch.
C31_AsClaimed ==
    (dkPc \in {"skipped", "saved", "caught"} /\ Malformed(dkJson)) =>
        dkArchive = {} /\ dkStatus.fail = 1

\* the HTML the specification prescribes on the desktop path, given the
\* fields present: visualeditor.content, else parse.text['*'], else html.body
PrescribedHtml(json) ==
    IF json.visualeditor # <<>> THEN json.visualeditor[1]
    ELSE IF json.parse # <<>> /\ json.parse[1] # Undefined THEN json.parse[1]
    ELSE IF json.html # <<>> /\ json.html[1] # Undefined THEN json.html[1]
    ELSE Undefined

\* C35 as the specification states it: the desktop path is used exactly when
\* the article is the main page or REST is unavailable, and there the HTML is
\* that of visualeditor.content if present (with the header injected off the
\* main page), else parse.text['*'] if present, else html.body, for every
\* combination of fields. The code tests html.body before parse.text and
\* reads json.html.body whenever contentmodel is 'wikitext'.
C35_AsClaimed ==
    dkPc # "getArticle" =>
        /\ (dkPath = "desktop") <=> (dkIsMainPage \/ ~dkRestApiAvailable)
        /\ (dkPath = "desktop" /\ dkJson # <<>> /\ PrescribedHtml(dkJson[1]) # Undefined) =>
              /\ dkRets # <<>>
              /\ dkRets[1] \in {PrescribedHtml(dkJson[1]), injectHeader(PrescribedHtml(dkJson[1]), "London")}

\* ---------------------------------------------------------------- module dependencies
ArticleNames == <<"a", "b", "c", "d">>
ModuleArticles == {ArticleNames[i] : i \in 1..MaxModuleArticles}

\* config.output.mw.js, config.output.mw.css, config.filters.blackListCssModules
genericJsModules == <<"startup">>
genericCssModules == <<"mediawiki.skinning.content.parsoid">>
blackListCssModules == <<"mediawiki.page.gallery">>

\* part_001 111-113
contains(arr, value) == \E i \in DOMAIN arr : arr[i] = value

\* the parse object of the article's api.php response; the head carries a
\* script with mw.config.set
ModulesResponse(articleId) ==
    [modules |-> <<"ext." \o articleId, "mediawiki.page.gallery">>,
     modulescripts |-> <<"site">>,
     modulestyles |-> <<"skins." \o articleId>>,
     headhtml |-> "mw.config.set({\"wgPageName\":\"" \o articleId \o "\"});"]

\* saveArticles.ts 169-174
jsDependenciesOf(articleId) ==
    genericJsModules \o ModulesResponse(articleId).modules \o ModulesResponse(articleId).modulescripts

styleDependenciesOf(articleId) ==
    SelectSeq(ModulesResponse(articleId).modules \o ModulesResponse(articleId).modulestyles \o genericCssModules,
              LAMBDA oneStyleDep : ~contains(blackListCssModules, oneStyleDep))

\* part_000 757-758: the filter keeps the modules the black list contains
styleDependenciesKept(articleId) ==
    SelectSeq(ModulesResponse(articleId).modules \o ModulesResponse(articleId).modulestyles \o genericCssModules,
              LAMBDA oneStyleDep : contains(blackListCssModules, oneStyleDep))

\* saveArticles.ts 179-190 (part_000 770-779): the match of the regex in the
\* head's script, wrapped
jsConfigVarsOf(articleId) ==
    "(window.RLQ=window.RLQ||[]).push(function() {" \o ModulesResponse(articleId).headhtml \o "});"

\* s[0] of a JS string
FirstChar(s) == IF s = "" THEN Undefined ELSE SubSeq(s, 1, 1)

\* saveArticles.ts 179-198: the object getModuleDependencies resolves with
getModuleDependencies(articleId) ==
    [jsConfigVars |-> jsConfigVarsOf(articleId),
     jsDependenciesList |-> jsDependenciesOf(articleId),
     styleDependenciesList |-> styleDependenciesOf(articleId)]

\* saveArticles.ts 122: jsConfigVars = jsConfigVars || _moduleDependencies.jsConfigVars[0]
keepFirst(jsConfigVars_, _moduleDependencies) ==
    IF Truthy(jsConfigVars_) THEN jsConfigVars_ ELSE FirstChar(_moduleDependencies.jsConfigVars)

\* the references of the template: one script per js module, one link per css module
Injected(js, css) == [js |-> js, css |-> css]

QueuedArticle == [pc |-> "queued", injected |-> <<>>]

InitModules ==
    /\ mdImpl \in {"part_000", "saveArticles.ts"}
    /\ mdSpeed \in 1..2
    /\ mdArt = [a \in ModuleArticles |-> QueuedArticle]
    /\ jsDependenciesList = <<>>
    /\ styleDependenciesList = <<>>
    /\ jsConfigVars = ""
    /\ mdOrder = <<>>
    /\ mdConfigEntry = <<>>
    /\ mdPhase = "running"

IdleModules ==
    /\ mdImpl = ""
    /\ mdSpeed = 0
    /\ mdArt = <<>>
    /\ jsDependenciesList = <<>>
    /\ styleDependenciesList = <<>>
    /\ jsConfigVars = ""
    /\ mdOrder = <<>>
    /\ mdConfigEntry = <<>>
    /\ mdPhase = "idle"

InProgress == {a \in DOMAIN mdArt : mdArt[a].pc \notin {"queued", "done", "failed"}}

\* part_000 1550 (async.eachLimit) / saveArticles.ts 80-85 (one worker per
\* unit of speed): an article is started while fewer than speed are under way
StartArticle(a) ==
    /\ mdArt[a].pc = "queued"
    /\ Cardinality(InProgress) < mdSpeed
    /\ mdArt' = [mdArt EXCEPT ![a].pc = "dependencies"]
    /\ UNCHANGED <<mdImpl, mdSpeed, jsDependenciesList, styleDependenciesList, jsConfigVars, mdOrder,
                   mdConfigEntry, mdPhase>>
    /\ UNCHANGED notModulesVars

\* part_000 747-783: the fetch of storeDependencies resolves: the lists of
\* saveArticles are assigned, jsConfigVars is written to its file
StoreDependencies(a) ==
    /\ mdImpl = "part_000"
    /\ mdArt[a].pc = "dependencies"
    /\ jsDependenciesList' = jsDependenciesOf(a)
    /\ styleDependenciesList' = styleDependenciesKept(a)
    /\ jsConfigVars' = jsConfigVarsOf(a)
    /\ mdConfigEntry' = <<jsConfigVarsOf(a)>>
    /\ mdOrder' = Append(mdOrder, a)
    /\ mdArt' = [mdArt EXCEPT ![a].pc = "setFooter"]
    /\ UNCHANGED <<mdImpl, mdSpeed, mdPhase>>
    /\ UNCHANGED notModulesVars

\* part_000 784-787: the fetch fails: the catch goes on with the article
StoreDependenciesFailed(a) ==
    /\ mdImpl = "part_000"
    /\ mdArt[a].pc = "dependencies"
    /\ mdArt' = [mdArt EXCEPT ![a].pc = "setFooter"]
    /\ UNCHANGED <<mdImpl, mdSpeed, jsDependenciesList, styleDependenciesList, jsConfigVars, mdOrder,
                   mdConfigEntry, mdPhase>>
    /\ UNCHANGED notModulesVars

\* part_000 1337-1345, after treatMedias, rewriteUrls and applyOtherTreatments:
\* the template is filled from the lists of saveArticles; the article is written
SetFooter(a) ==
    /\ mdImpl = "part_000"
    /\ mdArt[a].pc = "setFooter"
    /\ mdArt' = [mdArt EXCEPT ![a].injected = <<Injected(jsDependenciesList, styleDependenciesList)>>,
                              ![a].pc = "done"]
    /\ UNCHANGED <<mdImpl, mdSpeed, jsDependenciesList, styleDependenciesList, jsConfigVars, mdOrder,
                   mdConfigEntry, mdPhase>>
    /\ UNCHANGED notModulesVars

\* saveArticles.ts 111-124: getModuleDependencies resolves; jsConfigVars keeps
\* its value or takes element 0 of the article's; templateArticle fills the
\* template from the article's own lists
ModuleDependencies(a) ==
    /\ mdImpl = "saveArticles.ts"
    /\ mdArt[a].pc = "dependencies"
    /\ LET _moduleDependencies == getModuleDependencies(a)
       IN /\ jsConfigVars' = keepFirst(jsConfigVars, _moduleDependencies)
          /\ mdArt' = [mdArt EXCEPT
                 ![a].injected = <<Injected(_moduleDependencies.jsDependenciesList,
                                            _moduleDependencies.styleDependenciesList)>>,
                 ![a].pc = "addArticle"]
    /\ mdOrder' = Append(mdOrder, a)
    /\ UNCHANGED <<mdImpl, mdSpeed, jsDependenciesList, styleDependenciesList, mdConfigEntry, mdPhase>>
    /\ UNCHANGED notModulesVars

\* saveArticles.ts 111, 128-132: getJSON rejects, the catch drops the article
ModuleDependenciesFailed(a) ==
    /\ mdImpl = "saveArticles.ts"
    /\ mdArt[a].pc = "dependencies"
    /\ mdArt' = [mdArt EXCEPT ![a].pc = "failed"]
    /\ UNCHANGED <<mdImpl, mdSpeed, jsDependenciesList, styleDependenciesList, jsConfigVars, mdOrder,
                   mdConfigEntry, mdPhase>>
    /\ UNCHANGED notModulesVars

\* saveArticles.ts 125-128: the templated article is added to the archive
AddTemplated(a) ==
    /\ mdImpl = "saveArticles.ts"
    /\ mdArt[a].pc = "addArticle"
    /\ mdArt' = [mdArt EXCEPT ![a].pc = "done"]
    /\ UNCHANGED <<mdImpl, mdSpeed, jsDependenciesList, styleDependenciesList, jsConfigVars, mdOrder,
                   mdConfigEntry, mdPhase>>
    /\ UNCHANGED notModulesVars

\* saveArticles.ts 145-146: every worker is through; the jsConfigVars entry
\* is added with the value of jsConfigVars (part_000 1550-1554: finished)
ModulesReturn ==
    /\ mdPhase = "running"
    /\ \A a \in DOMAIN mdArt : mdArt[a].pc \in {"done", "failed"}
    /\ mdPhase' = "returned"
    /\ mdConfigEntry' = IF mdImpl = "saveArticles.ts" THEN <<jsConfigVars>> ELSE mdConfigEntry
    /\ UNCHANGED <<mdImpl, mdSpeed, mdArt, jsDependenciesList, styleDependenciesList, jsConfigVars, mdOrder>>
    /\ UNCHANGED notModulesVars

\* the dependencies computed for the article itself: those of its own
\* response under the implementation's filter, none if its fetch failed
ComputedFor(a) ==
    IF ~contains(mdOrder, a) THEN Injected(<<>>, <<>>)
    ELSE IF mdImpl = "part_000" THEN Injected(jsDependenciesOf(a), styleDependenciesKept(a))
    ELSE Injected(jsDependenciesOf(a), styleDependenciesOf(a))

\* C32 as the specification states it: the script and stylesheet references
\* injected into a saved article are exactly the module dependencies computed
\* for that article, under any interleaving and when another article's fetch
\* fails. part_000 does not keep this: storeDependencies assigns lists shared
\* by all articles under way and setFooter reads them later.
C32_AsClaimed ==
    \A a \in DOMAIN mdArt : mdArt[a].injected # <<>> => mdArt[a].injected[1] = ComputedFor(a)

\* what saveArticles.ts keeps: its lists are local to the article
OwnDependenciesInTs ==
    mdImpl = "saveArticles.ts" => C32_AsClaimed

\* C33 as the specification states it: the jsConfigVars entry written at the
\* end of saveArticles holds the complete script of the first processed
\* article that reported a non-empty value, and a later article never
\* replaces it. The code keeps the first value, but that value is element 0
\* of the script, a string: its first character.
C33_AsClaimed ==
    /\ []((mdImpl = "saveArticles.ts" /\ mdPhase = "returned" /\ mdOrder # <<>>) =>
             mdConfigEntry = <<jsConfigVarsOf(mdOrder[1])>>)
    /\ [][(mdImpl = "saveArticles.ts" /\ Truthy(jsConfigVars)) => jsConfigVars' = jsConfigVars]_vars

\* ---------------------------------------------------------------- links to articles that are dropped
LinkedArticles == {ArticleNames[i] : i \in 1..MaxLinkedArticles}

\* the redirects of the dump, and a title the wiki does not hold
KnownRedirects == {"R"}
UnknownTitle == "X"

\* every article links to every other article, to the redirect and to the
\* unknown title
LinksOf(articleId) == (LinkedArticles \ {articleId}) \cup KnownRedirects \cup {UnknownTitle}

\* saveArticles.ts 781-783 (part_000 1568): articleDetailXId.get(id), for an
\* id without namespace prefix
isMirroredNow(id, store) == id \in store

\* part_000 1062-1075: the link is kept when its title is mirrored or a redirect
keepsLink(title, store) == isMirroredNow(title, store) \/ title \in KnownRedirects

InitMirror ==
    /\ mrSpeed \in 1..2
    /\ mrStore = LinkedArticles
    /\ mrArt = [a \in LinkedArticles |-> [pc |-> "queued", kept |-> {}]]
    /\ mrArchive = {}
    /\ mrPhase = "running"

IdleMirror ==
    /\ mrSpeed = 0
    /\ mrStore = {}
    /\ mrArt = <<>>
    /\ mrArchive = {}
    /\ mrPhase = "idle"

MirrorInProgress == {a \in DOMAIN mrArt : mrArt[a].pc \notin {"queued", "saved", "failed"}}

\* saveArticles.ts 79-87: a worker comes to the article
MirrorStart(a) ==
    /\ mrArt[a].pc = "queued"
    /\ Cardinality(MirrorInProgress) < mrSpeed
    /\ mrArt' = [mrArt EXCEPT ![a].pc = "getArticle"]
    /\ UNCHANGED <<mrSpeed, mrStore, mrArchive, mrPhase>>
    /\ UNCHANGED notMirrorVars

\* saveArticles.ts 128-132: the catch deletes the article's detail
\* (part_000 1545: delete articleIds[articleId])
MirrorCatch(a) ==
    /\ mrStore' = mrStore \ {a}
    /\ mrArt' = [mrArt EXCEPT ![a].pc = "failed"]

\* saveArticles.ts 88: getArticle resolves with the rendered article, or the
\* download or the rendering fails
MirrorGetArticle(a) ==
    /\ mrArt[a].pc = "getArticle"
    /\ \/ /\ mrArt' = [mrArt EXCEPT ![a].pc = "rewriteUrls"]
          /\ UNCHANGED mrStore
       \/ MirrorCatch(a)
    /\ UNCHANGED <<mrSpeed, mrArchive, mrPhase>>
    /\ UNCHANGED notMirrorVars

\* saveArticles.ts 215 (part_000 1051-1080): rewriteUrls keeps the links to
\* the titles that are mirrored at this moment and to the redirects
MirrorRewriteUrls(a) ==
    /\ mrArt[a].pc = "rewriteUrls"
    /\ mrArt' = [mrArt EXCEPT ![a].kept = {title \in LinksOf(a) : keepsLink(title, mrStore)},
                              ![a].pc = "addArticle"]
    /\ UNCHANGED <<mrSpeed, mrStore, mrArchive, mrPhase>>
    /\ UNCHANGED notMirrorVars

\* saveArticles.ts 111-126: the article is templated and added, or a step throws
MirrorAddArticle(a) ==
    /\ mrArt[a].pc = "addArticle"
    /\ \/ /\ mrArchive' = mrArchive \cup {a}
          /\ mrArt' = [mrArt EXCEPT ![a].pc = "saved"]
          /\ UNCHANGED mrStore
       \/ /\ MirrorCatch(a)
          /\ UNCHANGED mrArchive
    /\ UNCHANGED <<mrSpeed, mrPhase>>
    /\ UNCHANGED notMirrorVars

\* saveArticles.ts 143: iterateItems has resolved
MirrorReturn ==
    /\ mrPhase = "running"
    /\ \A a \in DOMAIN mrArt : mrArt[a].pc \in {"saved", "failed"}
    /\ mrPhase' = "returned"
    /\ UNCHANGED <<mrSpeed, mrStore, mrArt, mrArchive>>
    /\ UNCHANGED notMirrorVars

\* C38 as the specification states it: when the article phase has finished,
\* every article link kept in a saved article targets an id that is in the
\* article store and was saved, or a known redirect. The code does not keep
\* this: a link is decided when its article is processed, and an article
\* that fails later is deleted from the store with the links to it in place.
C38_AsClaimed ==
    mrPhase = "returned" =>
        \A a \in mrArchive : \A title \in mrArt[a].kept :
            \/ title \in mrStore /\ title \in mrArchive
            \/ title \in KnownRedirects

\* ---------------------------------------------------------------- downloadContentAndCache / cache cleaning
CachedUrls == {"url" \o ToString(i) : i \in 1..MaxCachedUrls}

\* the two files of a URL in the cache directory: the modification time of
\* each, 0 while the file is absent
NoFiles == [body |-> 0, headers |-> 0]

\* part_000 1892, part_001 42-48: Utils.touch(cachePath) sets the times of
\* the body file
touch(files, now) == [files EXCEPT !.body = now]

\* part_000 518: find -type f -not -newer ref -exec rm
cleaned(files, ref) ==
    [body |-> IF files.body > ref THEN files.body ELSE 0,
     headers |-> IF files.headers > ref THEN files.headers ELSE 0]

\* part_000 1863-1879: both readFile calls succeed
IsCacheHit(files) == files.body # 0 /\ files.headers # 0

InitScratch ==
    /\ scFiles = [url \in CachedUrls |-> NoFiles]
    /\ scRef = 0
    /\ scClock = 0
    /\ scRun = 0
    /\ scPc = "idle"
    /\ scSkip = FALSE
    /\ scFetched = {}
    /\ scHits = {}

IdleScratch ==
    /\ scFiles = <<>>
    /\ scRef = 0
    /\ scClock = 0
    /\ scRun = 0
    /\ scPc = "off"
    /\ scSkip = FALSE
    /\ scFetched = {}
    /\ scHits = {}

\* a run starts on the cache directory: the ref marker is created
ScratchStartRun(skipCacheCleaning) ==
    /\ scPc = "idle"
    /\ scRun < MaxRuns
    /\ scRun' = scRun + 1
    /\ scClock' = scClock + 1
    /\ scRef' = scClock + 1
    /\ scSkip' = skipCacheCleaning
    /\ scPc' = "running"
    /\ scFetched' = {}
    /\ scHits' = {}
    /\ UNCHANGED scFiles
    /\ UNCHANGED notScratchVars

\* part_000 1890-1894: both files were read: the body file is touched and the
\* cached content and headers are handed to the callback
CacheHit(url) ==
    /\ scPc = "running"
    /\ url \notin scFetched
    /\ IsCacheHit(scFiles[url])
    /\ scFiles' = [scFiles EXCEPT ![url] = touch(@, scClock + 1)]
    /\ scClock' = scClock + 1
    /\ scFetched' = scFetched \cup {url}
    /\ scHits' = scHits \cup {url}
    /\ UNCHANGED <<scRef, scRun, scPc, scSkip>>
    /\ UNCHANGED notScratchVars

\* part_000 1880-1889: a file could not be read: the content is downloaded,
\* the headers file is written, then the body file
CacheMiss(url) ==
    /\ scPc = "running"
    /\ url \notin scFetched
    /\ ~IsCacheHit(scFiles[url])
    /\ scFiles' = [scFiles EXCEPT ![url] = [headers |-> scClock + 1, body |-> scClock + 2]]
    /\ scClock' = scClock + 2
    /\ scFetched' = scFetched \cup {url}
    /\ UNCHANGED <<scRef, scRun, scPc, scSkip, scHits>>
    /\ UNCHANGED notScratchVars

\* part_000 511-520: with skipCacheCleaning the ref marker is removed, else
\* the files not newer than it are
CleanCache ==
    /\ scPc = "running"
    /\ scFiles' = IF scSkip THEN scFiles ELSE [url \in DOMAIN scFiles |-> cleaned(scFiles[url], scRef)]
    /\ scRef' = 0
    /\ scPc' = "idle"
    /\ UNCHANGED <<scClock, scRun, scSkip, scFetched, scHits>>
    /\ UNCHANGED notScratchVars

\* C39 as the specification states it: an entry served as a hit during a
\* run survives that run's cleaning as a whole, body file and headers file,
\* and whenever a body file exists its headers file exists too. The code does
\* not keep this: a hit touches the body file only, so the cleaning removes
\* the headers file, which is as old as the run that wrote it.
C39_AsClaimed ==
    /\ [](\A url \in DOMAIN scFiles : scFiles[url].body # 0 => scFiles[url].headers # 0)
    /\ [][(scPc = "running" /\ scPc' = "idle") =>
             \A url \in scHits : IsCacheHit(scFiles'[url])]_vars

\* ---------------------------------------------------------------- specifications
NextRender == RenderGetDetail \/ RenderDesktop \/ RenderMCSStart \/ RenderShard \/ RenderReturn

InitSpecRender == InitRender /\ IdleDownloader /\ IdleArticles /\ IdleFiles /\ IdleDump /\ IdleNs /\ IdleImage /\ IdleRun /\ IdleCap /\ IdleMedia /\ IdleLink /\ IdleUrlPart /\ IdleEncode /\ IdleHeading /\ IdleVideo /\ IdleGeo /\ IdleDetails /\ IdleDesktop /\ IdleModules /\ IdleQuery /\ IdleMirror /\ IdleScratch

SpecRender == InitSpecRender /\ [][NextRender]_vars

NextDownloader ==
    \E c \in Calls :
        \/ StartCall(c)
        \/ DownloadContentEmpty(c)
        \/ ClaimRequest(c)
        \/ \E answer \in Answers : GetJSONAnswer(c, answer)
        \/ \E answer \in Answers : GetContentAnswer(c, answer)
        \/ \E ok \in BOOLEAN : BlobCacheAnswer(c, ok)
        \/ BackoffReady(c)
        \/ CallReturns(c)

InitSpecDownloader == InitDownloader /\ IdleRender /\ IdleArticles /\ IdleFiles /\ IdleDump /\ IdleNs /\ IdleImage /\ IdleRun /\ IdleCap /\ IdleMedia /\ IdleLink /\ IdleUrlPart /\ IdleEncode /\ IdleHeading /\ IdleVideo /\ IdleGeo /\ IdleDetails /\ IdleDesktop /\ IdleModules /\ IdleQuery /\ IdleMirror /\ IdleScratch

SpecDownloader == InitSpecDownloader /\ [][NextDownloader]_vars

\* the Downloader with an upstream that answers
FairSpecDownloader == SpecDownloader /\ FairDownloader

NextArticles ==
    \/ \E w \in Workers : TakeBatch(w)
    \/ \E w \in Workers : WorkerDone(w)
    \/ \E w \in Workers : GetArticle(w)
    \/ \E w \in Workers : SkipEmptyShard(w)
    \/ \E w \in Workers : ProcessArticleHtml(w)
    \/ \E w \in Workers : DepGet(w)
    \/ \E w \in Workers : DepSet(w)
    \/ \E w \in Workers : AddArticle(w)
    \/ ArticlesReturn

InitSpecArticles ==
    /\ InitArticles
    /\ IdleRenderLocals
    /\ maxActiveRequests = speed * RequestsPerSpeed
    /\ activeRequests = 0
    /\ calls = <<>>
    /\ IdleFiles
    /\ IdleDump
    /\ IdleNs
    /\ IdleImage
    /\ IdleRun
    /\ IdleCap
    /\ IdleMedia
    /\ IdleLink
    /\ IdleUrlPart
    /\ IdleEncode
    /\ IdleHeading
    /\ IdleVideo
    /\ IdleGeo
    /\ IdleDetails
    /\ IdleDesktop
    /\ IdleModules
    /\ IdleQuery
    /\ IdleMirror
    /\ IdleScratch

SpecArticles == InitSpecArticles /\ [][NextArticles]_vars

NextFiles ==
    \/ \E isRetry \in BOOLEAN, w \in FileWorkers : FileTakeBatch(isRetry, w)
    \/ \E isRetry \in BOOLEAN, w \in FileWorkers : FileWorkerDone(isRetry, w)
    \/ \E isRetry \in BOOLEAN, w \in FileWorkers : FileStart(isRetry, w)
    \/ \E isRetry \in BOOLEAN, w \in FileWorkers : FileSettle(isRetry, w)
    \/ StartRetryPass
    \/ FilesReturn

\* the article variables but the ones downloadFiles uses
IdleArticleLocals ==
    /\ redirectsXId = <<>>
    /\ archiveA = {}
    /\ mainPage = ""
    /\ restApiAvailable = TRUE
    /\ pendingKeys = {}
    /\ workers = <<>>
    /\ articlesPhase = "idle"
    /\ inserted = <<>>
    /\ fetchFailed = {}

InitSpecFiles ==
    /\ InitFiles
    /\ IdleRender
    /\ IdleArticleLocals
    /\ maxActiveRequests = speed * RequestsPerSpeed
    /\ activeRequests = 0
    /\ calls = <<>>
    /\ IdleDump
    /\ IdleNs
    /\ IdleImage
    /\ IdleRun
    /\ IdleCap
    /\ IdleMedia
    /\ IdleLink
    /\ IdleUrlPart
    /\ IdleEncode
    /\ IdleHeading
    /\ IdleVideo
    /\ IdleGeo
    /\ IdleDetails
    /\ IdleDesktop
    /\ IdleModules
    /\ IdleQuery
    /\ IdleMirror
    /\ IdleScratch

SpecFiles == InitSpecFiles /\ [][NextFiles]_vars

NextDump ==
    \/ GetArticleIds
    \/ CacheRedirects
    \/ AwaitedTask
    \/ SaveStaticFiles
    \/ StaticWriteCompletes
    \/ SaveArticle
    \/ SaveArticlesFinished
    \/ ModuleDownloadCompletes
    \/ DownloadFileCompletes
    \/ OptimizationCompletes
    \/ DrainDownloadFileQueue
    \/ DrainOptimizationQueue
    \/ BuildZIM

InitSpecDump == InitDump /\ IdleRender /\ IdleDownloader /\ IdleArticles /\ IdleFiles /\ IdleNs /\ IdleImage /\ IdleRun /\ IdleCap /\ IdleMedia /\ IdleLink /\ IdleUrlPart /\ IdleEncode /\ IdleHeading /\ IdleVideo /\ IdleGeo /\ IdleDetails /\ IdleDesktop /\ IdleModules /\ IdleQuery /\ IdleMirror /\ IdleScratch

SpecDump == InitSpecDump /\ [][NextDump]_vars

NextNs ==
    \/ \E k \in 0..NumBatches - 1 : NSCall(CursorOf(k))
    \/ NSRequest
    \/ \E resp \in QueryContinues(nsGapcontinue) : NSResponse(resp)
    \/ NSReject

InitSpecNs == InitNs /\ IdleRender /\ IdleDownloader /\ IdleArticles /\ IdleFiles /\ IdleDump /\ IdleImage /\ IdleRun /\ IdleCap /\ IdleMedia /\ IdleLink /\ IdleUrlPart /\ IdleEncode /\ IdleHeading /\ IdleVideo /\ IdleGeo /\ IdleDetails /\ IdleDesktop /\ IdleModules /\ IdleQuery /\ IdleMirror /\ IdleScratch

SpecNs == InitSpecNs /\ [][NextNs]_vars

NextImage ==
    \/ \E url \in ImageUrls : DownloadImage(url)
    \/ DownloadBlobResolves
    \/ DownloadBlobRejects
    \/ \E status \in {"200", "304", "500"} : ImageAnswer(status)

InitSpecImage == InitImage /\ IdleRender /\ IdleDownloader /\ IdleArticles /\ IdleFiles /\ IdleDump /\ IdleNs /\ IdleRun /\ IdleCap /\ IdleMedia /\ IdleLink /\ IdleUrlPart /\ IdleEncode /\ IdleHeading /\ IdleVideo /\ IdleGeo /\ IdleDetails /\ IdleDesktop /\ IdleModules /\ IdleQuery /\ IdleMirror /\ IdleScratch

SpecImage == InitSpecImage /\ [][NextImage]_vars

NextRun ==
    \/ TaskFinished
    \/ TaskReportsError
    \/ TaskExitsIfError
    \/ TaskThrows
    \/ \E error \in BOOLEAN : CacheCleaned(error)
    \/ Closed

InitSpecRun == InitRun /\ IdleRender /\ IdleDownloader /\ IdleArticles /\ IdleFiles /\ IdleDump /\ IdleNs /\ IdleImage /\ IdleCap /\ IdleMedia /\ IdleLink /\ IdleUrlPart /\ IdleEncode /\ IdleHeading /\ IdleVideo /\ IdleGeo /\ IdleDetails /\ IdleDesktop /\ IdleModules /\ IdleQuery /\ IdleMirror /\ IdleScratch

SpecRun == InitSpecRun /\ [][NextRun]_vars

NextCap ==
    \/ \E outcome \in ProbeOutcomes : RestProbe(outcome)
    \/ \E outcome \in ProbeOutcomes : VeProbe(outcome)
    \/ LocalServicesStarted
    \/ LocalServicesFail
    \/ \E outcome \in {"plain", "warning", "rejects"} : CoordinatesAnswer(outcome)
    \/ \E articleId \in CapArticles : CapGetArticle(articleId)
    \/ \E includePageimages \in BOOLEAN : ArticleDetailsQuery(includePageimages)
    \/ \E warning \in BOOLEAN : ArticleDetailsAnswer(warning)

InitSpecCap == InitCap /\ IdleRender /\ IdleDownloader /\ IdleArticles /\ IdleFiles /\ IdleDump /\ IdleNs /\ IdleImage /\ IdleRun /\ IdleMedia /\ IdleLink /\ IdleUrlPart /\ IdleEncode /\ IdleHeading /\ IdleVideo /\ IdleGeo /\ IdleDetails /\ IdleDesktop /\ IdleModules /\ InitQuery /\ IdleMirror /\ IdleScratch

SpecCap == InitSpecCap /\ [][NextCap]_vars

NextMedia == ProcessMedia

InitSpecMedia == InitMedia /\ IdleRender /\ IdleDownloader /\ IdleArticles /\ IdleFiles /\ IdleDump /\ IdleNs /\ IdleImage /\ IdleRun /\ IdleCap /\ IdleLink /\ IdleUrlPart /\ IdleEncode /\ IdleHeading /\ IdleVideo /\ IdleGeo /\ IdleDetails /\ IdleDesktop /\ IdleModules /\ IdleQuery /\ IdleMirror /\ IdleScratch

SpecMedia == InitSpecMedia /\ [][NextMedia]_vars

NextLink ==
    \/ RewriteOther
    \/ RewriteMirrored
    \/ LookUpRedirect
    \/ RedirectAnswer

InitSpecLink == InitLink /\ IdleRender /\ IdleDownloader /\ IdleArticles /\ IdleFiles /\ IdleDump /\ IdleNs /\ IdleImage /\ IdleRun /\ IdleCap /\ IdleMedia /\ IdleUrlPart /\ IdleEncode /\ IdleHeading /\ IdleVideo /\ IdleGeo /\ IdleDetails /\ IdleDesktop /\ IdleModules /\ IdleQuery /\ IdleMirror /\ IdleScratch

SpecLink == InitSpecLink /\ [][NextLink]_vars

NextUrlPart ==
    \/ \E url \in {host \o path : host \in UrlHosts, path \in UrlPaths} : SerializeUrl(url)
    \/ \E x \in SerializedUrls : DeserializeUrl(x)
    \/ SerializeBack
    \/ \E url \in RoundTripUrls : SerializeThenDeserialize(url)
    \/ \E url \in RoundTripUrls : DeserializePlain(url)

InitSpecUrlPart == InitUrlPart /\ IdleRender /\ IdleDownloader /\ IdleArticles /\ IdleFiles /\ IdleDump /\ IdleNs /\ IdleImage /\ IdleRun /\ IdleCap /\ IdleMedia /\ IdleLink /\ IdleEncode /\ IdleHeading /\ IdleVideo /\ IdleGeo /\ IdleDetails /\ IdleDesktop /\ IdleModules /\ IdleQuery /\ IdleMirror /\ IdleScratch

SpecUrlPart == InitSpecUrlPart /\ [][NextUrlPart]_vars

NextEncode ==
    \/ EncodeId
    \/ DecodeId
    \/ EncodeAgain

InitSpecEncode == InitEncode /\ IdleRender /\ IdleDownloader /\ IdleArticles /\ IdleFiles /\ IdleDump /\ IdleNs /\ IdleImage /\ IdleRun /\ IdleCap /\ IdleMedia /\ IdleLink /\ IdleUrlPart /\ IdleHeading /\ IdleVideo /\ IdleGeo /\ IdleDetails /\ IdleDesktop /\ IdleModules /\ IdleQuery /\ IdleMirror /\ IdleScratch

SpecEncode == InitSpecEncode /\ [][NextEncode]_vars

NextHeading == RemoveParagraphs

InitSpecHeading == InitHeading /\ IdleRender /\ IdleDownloader /\ IdleArticles /\ IdleFiles /\ IdleDump /\ IdleNs /\ IdleImage /\ IdleRun /\ IdleCap /\ IdleMedia /\ IdleLink /\ IdleUrlPart /\ IdleEncode /\ IdleVideo /\ IdleGeo /\ IdleDetails /\ IdleDesktop /\ IdleModules /\ IdleQuery /\ IdleMirror /\ IdleScratch

SpecHeading == InitSpecHeading /\ [][NextHeading]_vars

NextVideo == TreatVideo

InitSpecVideo == InitVideo /\ IdleRender /\ IdleDownloader /\ IdleArticles /\ IdleFiles /\ IdleDump /\ IdleNs /\ IdleImage /\ IdleRun /\ IdleCap /\ IdleMedia /\ IdleLink /\ IdleUrlPart /\ IdleEncode /\ IdleHeading /\ IdleGeo /\ IdleDetails /\ IdleDesktop /\ IdleModules /\ IdleQuery /\ IdleMirror /\ IdleScratch

SpecVideo == InitSpecVideo /\ [][NextVideo]_vars

NextPool ==
    \/ \E c \in Callers : ClaimRequest(c)
    \/ \E c \in Callers : GetJSONAnswer(c, "200")
    \/ Throttled

InitSpecPool == InitPool /\ IdleRender /\ IdleArticles /\ IdleFiles /\ IdleDump /\ IdleNs /\ IdleImage /\ IdleRun /\ IdleCap /\ IdleMedia /\ IdleLink /\ IdleUrlPart /\ IdleEncode /\ IdleHeading /\ IdleVideo /\ IdleGeo /\ IdleDetails /\ IdleDesktop /\ IdleModules /\ IdleQuery /\ IdleMirror /\ IdleScratch

SpecPool == InitSpecPool /\ [][NextPool]_vars

NextGeo ==
    \/ RewriteGeo
    \/ RewriteNoGeo

InitSpecGeo == InitGeo /\ IdleRender /\ IdleDownloader /\ IdleArticles /\ IdleFiles /\ IdleDump /\ IdleNs /\ IdleImage /\ IdleRun /\ IdleCap /\ IdleMedia /\ IdleLink /\ IdleUrlPart /\ IdleEncode /\ IdleHeading /\ IdleVideo /\ IdleDetails /\ IdleDesktop /\ IdleModules /\ IdleQuery /\ IdleMirror /\ IdleScratch

SpecGeo == InitSpecGeo /\ [][NextGeo]_vars

NextDetails ==
    \/ DetailsRequest
    \/ \E sizes \in UNION {[props -> 0..MaxItems] : props \in SUBSET ContinuedProps} :
           DetailsResponse(sizes)

InitSpecDetails == InitDetails /\ IdleRender /\ IdleDownloader /\ IdleArticles /\ IdleFiles /\ IdleDump /\ IdleNs /\ IdleImage /\ IdleRun /\ IdleCap /\ IdleMedia /\ IdleLink /\ IdleUrlPart /\ IdleEncode /\ IdleHeading /\ IdleVideo /\ IdleGeo /\ IdleDesktop /\ IdleModules /\ IdleQuery /\ IdleMirror /\ IdleScratch

SpecDetails == InitSpecDetails /\ [][NextDetails]_vars

NextDesktop ==
    \/ RenderArticleDesktop
    \/ RenderArticleMCS
    \/ SkipNoHtml
    \/ SaveHtml

InitSpecDesktop ==
    /\ InitDesktop
    /\ IdleRender
    /\ IdleDownloader
    /\ IdleArticles
    /\ IdleFiles
    /\ IdleDump
    /\ IdleNs
    /\ IdleImage
    /\ IdleRun
    /\ IdleCap
    /\ IdleMedia
    /\ IdleLink
    /\ IdleUrlPart
    /\ IdleEncode
    /\ IdleHeading
    /\ IdleVideo
    /\ IdleGeo
    /\ IdleDetails
    /\ IdleModules
    /\ IdleQuery
    /\ IdleMirror
    /\ IdleScratch

SpecDesktop == InitSpecDesktop /\ [][NextDesktop]_vars

NextModules ==
    \/ \E a \in ModuleArticles : StartArticle(a)
    \/ \E a \in ModuleArticles : StoreDependencies(a)
    \/ \E a \in ModuleArticles : StoreDependenciesFailed(a)
    \/ \E a \in ModuleArticles : SetFooter(a)
    \/ \E a \in ModuleArticles : ModuleDependencies(a)
    \/ \E a \in ModuleArticles : ModuleDependenciesFailed(a)
    \/ \E a \in ModuleArticles : AddTemplated(a)
    \/ ModulesReturn

InitSpecModules ==
    /\ InitModules
    /\ IdleRender
    /\ IdleDownloader
    /\ IdleArticles
    /\ IdleFiles
    /\ IdleDump
    /\ IdleNs
    /\ IdleImage
    /\ IdleRun
    /\ IdleCap
    /\ IdleMedia
    /\ IdleLink
    /\ IdleUrlPart
    /\ IdleEncode
    /\ IdleHeading
    /\ IdleVideo
    /\ IdleGeo
    /\ IdleDetails
    /\ IdleDesktop
    /\ IdleQuery
    /\ IdleMirror
    /\ IdleScratch

SpecModules == InitSpecModules /\ [][NextModules]_vars

NextSlots ==
    \/ \E c \in SlotCalls : StartCall(c)
    \/ \E c \in SlotCalls : DownloadContentEmpty(c)
    \/ \E c \in SlotCalls : ClaimRequest(c)
    \/ \E c \in SlotCalls : \E answer \in JSONAnswersTo(c) : GetJSONAnswer(c, answer)
    \/ \E c \in SlotCalls : \E answer \in ContentAnswersTo(c) : GetContentAnswer(c, answer)
    \/ \E c \in SlotCalls : \E ok \in BOOLEAN : (c = 1 \/ ok) /\ BlobCacheAnswer(c, ok)
    \/ \E c \in SlotCalls : BackoffReady(c)
    \/ \E c \in SlotCalls : CallReturns(c)

InitSpecSlots == InitSlots /\ IdleRender /\ IdleArticles /\ IdleFiles /\ IdleDump /\ IdleNs /\ IdleImage /\ IdleRun /\ IdleCap /\ IdleMedia /\ IdleLink /\ IdleUrlPart /\ IdleEncode /\ IdleHeading /\ IdleVideo /\ IdleGeo /\ IdleDetails /\ IdleDesktop /\ IdleModules /\ IdleQuery /\ IdleMirror /\ IdleScratch

SpecSlots == InitSpecSlots /\ [][NextSlots]_vars

NextMirror ==
    \/ \E a \in LinkedArticles : MirrorStart(a)
    \/ \E a \in LinkedArticles : MirrorGetArticle(a)
    \/ \E a \in LinkedArticles : MirrorRewriteUrls(a)
    \/ \E a \in LinkedArticles : MirrorAddArticle(a)
    \/ MirrorReturn

InitSpecMirror == InitMirror /\ IdleRender /\ IdleDownloader /\ IdleArticles /\ IdleFiles /\ IdleDump /\ IdleNs /\ IdleImage /\ IdleRun /\ IdleCap /\ IdleMedia /\ IdleLink /\ IdleUrlPart /\ IdleEncode /\ IdleHeading /\ IdleVideo /\ IdleGeo /\ IdleDetails /\ IdleDesktop /\ IdleModules /\ IdleQuery /\ IdleScratch

SpecMirror == InitSpecMirror /\ [][NextMirror]_vars

NextScratch ==
    \/ \E skipCacheCleaning \in BOOLEAN : ScratchStartRun(skipCacheCleaning)
    \/ \E url \in CachedUrls : CacheHit(url)
    \/ \E url \in CachedUrls : CacheMiss(url)
    \/ CleanCache

InitSpecScratch == InitScratch /\ IdleRender /\ IdleDownloader /\ IdleArticles /\ IdleFiles /\ IdleDump /\ IdleNs /\ IdleImage /\ IdleRun /\ IdleCap /\ IdleMedia /\ IdleLink /\ IdleUrlPart /\ IdleEncode /\ IdleHeading /\ IdleVideo /\ IdleGeo /\ IdleDetails /\ IdleDesktop /\ IdleModules /\ IdleQuery /\ IdleMirror

SpecScratch == InitSpecScratch /\ [][NextScratch]_vars

====
